---- MODULE Spec2Model ----
(***************************************************************************)
(* Memory-management core of the Aetherion OS kernel:                      *)
(*   kernel/src/memory/mod.rs              address types                   *)
(*   kernel/src/memory/bitmap.rs           Bitmap                          *)
(*   kernel/src/memory/frame_allocator.rs  FrameAllocator                  *)
(*   kernel/src/memory/page_table.rs       PageTableEntry / PageTable      *)
(*   kernel/src/memory/paging.rs           PageMapper                      *)
(*                                                                         *)
(* Two specifications are defined:                                         *)
(*   Spec    the FrameAllocator driven by arbitrary calls                  *)
(*   SpecPM  the PageMapper over a FrameAllocator and table memory         *)
(*                                                                         *)
(* A machine word (usize / u64) whose single bits matter is a set of bit   *)
(* positions; addresses are integers below 2^31 (TLC's integers are 32     *)
(* bits wide), which leaves the PML4 index at 0 and the PDPT index  *)
(* in 0..1 while the PD, PT and offset fields keep their full width.       *)
(***************************************************************************)
EXTENDS Integers, Sequences, FiniteSets, TLC

VARIABLES
    allocator,    \* the FrameAllocator: bitmap, start_address, total_frames, allocated_frames
    mapper,       \* the PageMapper: pml4_address
    mem,          \* physical memory holding page tables: table frame address -> table
    last,         \* the last call: operation, arguments, returned value
    pre,          \* allocator and mem as they were when the last call started
    outstanding,  \* frame address -> times handed out since it was last passed to a deallocation
    panicked,     \* the kernel panicked (panic handler halts forever, main.rs:218)
    heap,         \* the region a heap allocator was initialised with: start, size
    lock,         \* the spin::Mutex of the LockedAllocator: TRUE while it is held
    ctx           \* execution context -> where it is in its request to the LockedAllocator

vars == <<allocator, mapper, mem, last, pre, outstanding, panicked, heap, lock, ctx>>

(***************************************************************************)
(* Bounds of the model                                                     *)
(***************************************************************************)
\* frames managed by the allocator under Spec (memory_size / FRAME_SIZE)
FrameCount == 9
\* largest count passed to allocate_frames / deallocate_frames
MaxCount == 2
\* frames managed by the allocator under SpecPM
PmFrameCount == 5

(***************************************************************************)
(* memory/mod.rs                                                           *)
(***************************************************************************)
PAGE_SIZE == 4096
FRAME_SIZE == 4096

\* Option<T>
None == <<>>
Some(x) == <<x>>

\* a & b on non-negative integers
RECURSIVE BitAnd(_, _)
BitAnd(a, b) ==
    IF a = 0 \/ b = 0 THEN 0
    ELSE (a % 2) * (b % 2) + 2 * BitAnd(a \div 2, b \div 2)

\* a >> n
RECURSIVE Shr(_, _)
Shr(a, n) == IF n = 0 \/ a = 0 THEN a ELSE Shr(a \div 2, n - 1)

\* self.0 & !(align - 1)
align_down(addr, align) == addr - BitAnd(addr, align - 1)

\* (self.0 + align - 1) & !(align - 1)
align_up(addr, align) == align_down(addr + align - 1, align)

\* self.0 % align == 0
is_aligned(addr, align) == addr % align = 0

(***************************************************************************)
(* memory/bitmap.rs: data is the byte buffer, size the number of bits      *)
(***************************************************************************)
\* (byte & (1 << bit_idx)) != 0
BitOf(byte, bit_idx) == (byte \div (2 ^ bit_idx)) % 2 # 0

Bitmap_new(buffer, size) ==
    [data |-> [i \in DOMAIN buffer |-> 0], size |-> size]

set_skip(bm, index) == bm

\* a set without the bounds check, for an index the buffer has a byte for
set_unchecked(bm, index) ==
    IF index \div 8 \in DOMAIN bm.data
    THEN [bm EXCEPT !.data[index \div 8] =
              IF BitOf(@, index % 8) THEN @ ELSE @ + 2 ^ (index % 8)]
    ELSE bm

set(bm, index) ==
    IF index < bm.size
    THEN [bm EXCEPT !.data[index \div 8] =
              IF BitOf(@, index % 8) THEN @ ELSE @ + 2 ^ (index % 8)]
    ELSE bm

\* a clear that zeroes the whole byte of the bit
clear_byte(bm, index) ==
    IF index < bm.size
    THEN [bm EXCEPT !.data[index \div 8] = 0]
    ELSE bm

clear(bm, index) ==
    IF index < bm.size
    THEN [bm EXCEPT !.data[index \div 8] =
              IF BitOf(@, index % 8) THEN @ - 2 ^ (index % 8) ELSE @]
    ELSE bm

is_set(bm, index) ==
    IF index >= bm.size THEN FALSE
    ELSE BitOf(bm.data[index \div 8], index % 8)

\* find_first_clear: the outer loop over the bytes and the inner loop over
\* the bits of a byte that is not 0xFF
RECURSIVE ffc_bytes(_, _)
RECURSIVE ffc_bits(_, _, _)
RECURSIVE ffc_bits_nobound(_, _, _)
\* the inner loop without its bounds check
ffc_bits_nobound(bm, byte_idx, bit_idx) ==
    IF bit_idx >= 8 THEN ffc_bytes(bm, byte_idx + 1)
    ELSE IF ~is_set(bm, byte_idx * 8 + bit_idx) THEN Some(byte_idx * 8 + bit_idx)
    ELSE ffc_bits_nobound(bm, byte_idx, bit_idx + 1)

\* an inner loop that reports the first index of the byte without looking
\* at its bits
ffc_bits_bytestart(bm, byte_idx, bit_idx) ==
    IF byte_idx * 8 >= bm.size THEN None ELSE Some(byte_idx * 8)

ffc_bits(bm, byte_idx, bit_idx) ==
    IF bit_idx >= 8 THEN ffc_bytes(bm, byte_idx + 1)
    ELSE LET index == byte_idx * 8 + bit_idx
         IN  IF index >= bm.size THEN None
             ELSE IF ~is_set(bm, index) THEN Some(index)
             ELSE ffc_bits(bm, byte_idx, bit_idx + 1)

\* the outer loop stopping at a full byte instead of skipping it
ffc_bytes_stop(bm, byte_idx) ==
    IF byte_idx \notin DOMAIN bm.data THEN None
    ELSE IF bm.data[byte_idx] # 255 THEN ffc_bits(bm, byte_idx, 0)
    ELSE None

ffc_bytes(bm, byte_idx) ==
    IF byte_idx \notin DOMAIN bm.data THEN None
    ELSE IF bm.data[byte_idx] # 255 THEN ffc_bits(bm, byte_idx, 0)
    ELSE ffc_bytes(bm, byte_idx + 1)

\* a scan that starts at the top of the bitmap
RECURSIVE find_last_clear_from(_, _)
find_last_clear_from(bm, idx) ==
    IF idx < 0 THEN None
    ELSE IF ~is_set(bm, idx) THEN Some(idx)
    ELSE find_last_clear_from(bm, idx - 1)

find_first_clear_highest(bm) == find_last_clear_from(bm, bm.size - 1)

find_first_clear(bm) == ffc_bytes(bm, 0)

\* find_consecutive_clear: the loop `for idx in 0..self.size`
RECURSIVE fcc_loop(_, _, _, _, _)
RECURSIVE fcc_loop_last(_, _, _, _, _)
\* a scan that reports the index at which the run became long enough
fcc_loop_last(bm, count, idx, consecutive, start_idx) ==
    IF idx >= bm.size THEN None
    ELSE IF ~is_set(bm, idx)
         THEN IF consecutive + 1 = count THEN Some(idx)
              ELSE fcc_loop_last(bm, count, idx + 1, consecutive + 1, start_idx)
         ELSE fcc_loop_last(bm, count, idx + 1, 0, start_idx)

fcc_loop(bm, count, idx, consecutive, start_idx) ==
    IF idx >= bm.size THEN None
    ELSE IF ~is_set(bm, idx)
         THEN LET s == IF consecutive = 0 THEN idx ELSE start_idx
              IN  IF consecutive + 1 = count THEN Some(s)
                  ELSE fcc_loop(bm, count, idx + 1, consecutive + 1, s)
         ELSE fcc_loop(bm, count, idx + 1, 0, start_idx)

\* a scan whose run counter survives a set bit
RECURSIVE fcc_noreset_loop(_, _, _, _, _)
fcc_noreset_loop(bm, count, idx, consecutive, start_idx) ==
    IF idx >= bm.size THEN None
    ELSE IF ~is_set(bm, idx)
         THEN LET s == IF consecutive = 0 THEN idx ELSE start_idx
              IN  IF consecutive + 1 = count THEN Some(s)
                  ELSE fcc_noreset_loop(bm, count, idx + 1, consecutive + 1, s)
         ELSE fcc_noreset_loop(bm, count, idx + 1, consecutive, start_idx)

find_consecutive_clear_noreset(bm, count) ==
    IF count = 0 THEN None ELSE fcc_noreset_loop(bm, count, 0, 0, 0)

find_consecutive_clear(bm, count) ==
    IF count = 0 THEN None ELSE fcc_loop(bm, count, 0, 0, 0)

count_free(bm) == Cardinality({idx \in 0 .. bm.size - 1 : ~is_set(bm, idx)})

count_allocated(bm) == bm.size - count_free(bm)

(***************************************************************************)
(* memory/frame_allocator.rs                                               *)
(***************************************************************************)
FrameAllocator_new(start_addr, memory_size, bitmap_buffer) ==
    LET total == memory_size \div FRAME_SIZE
    IN  [bitmap           |-> Bitmap_new(bitmap_buffer, total),
         start_address    |-> start_addr,
         total_frames     |-> total,
         allocated_frames |-> 0]

\* a call's outcome: the allocator afterwards and the returned Option
allocate_frame(fa) ==
    LET found == find_first_clear(fa.bitmap)
    IN  IF found # None
        THEN [fa  |-> [fa EXCEPT !.bitmap = set(@, found[1]),
                                 !.allocated_frames = @ + 1],
              ret |-> Some(fa.start_address + found[1] * FRAME_SIZE)]
        ELSE [fa |-> fa, ret |-> None]

\* for idx in start_idx..(start_idx + count) { self.bitmap.set(idx) }
RECURSIVE set_range(_, _, _)
set_range(bm, idx, end) ==
    IF idx >= end THEN bm ELSE set_range(set(bm, idx), idx + 1, end)

\* an allocate_frames that counts the run as one frame
allocate_frames_count1(fa, count) ==
    IF count = 0 THEN [fa |-> fa, ret |-> None]
    ELSE LET found == find_consecutive_clear(fa.bitmap, count)
         IN  IF found # None
             THEN [fa  |-> [fa EXCEPT
                              !.bitmap = set_range(@, found[1], found[1] + count),
                              !.allocated_frames = @ + 1],
                   ret |-> Some(fa.start_address + found[1] * FRAME_SIZE)]
             ELSE [fa |-> fa, ret |-> None]

allocate_frames(fa, count) ==
    IF count = 0 THEN [fa |-> fa, ret |-> None]
    ELSE LET found == find_consecutive_clear(fa.bitmap, count)
         IN  IF found # None
             THEN [fa  |-> [fa EXCEPT
                              !.bitmap = set_range(@, found[1], found[1] + count),
                              !.allocated_frames = @ + count],
                   ret |-> Some(fa.start_address + found[1] * FRAME_SIZE)]
             ELSE [fa |-> fa, ret |-> None]

\* The quotient 2^64 / FRAME_SIZE = 2^52 of the wrapped subtraction below; the
\* integers of TLC end at 2^31, so 2^30 stands for it: like 2^52 it is
\* above every frame count and every count argument of the model.
WrapFrames == 2 ^ 30

\* (aligned.as_usize() - self.start_address.as_usize()) / FRAME_SIZE on usize.
\* When aligned < start_address the subtraction overflows: a build with
\* overflow checks panics, a build without them wraps modulo 2^64.
frame_index(fa, addr) ==
    LET aligned == align_down(addr, FRAME_SIZE)
    IN  IF aligned >= fa.start_address
        THEN [overflow |-> FALSE,
              idx      |-> (aligned - fa.start_address) \div FRAME_SIZE]
        ELSE [overflow |-> TRUE,
              idx      |-> WrapFrames
                           - ((fa.start_address - aligned + FRAME_SIZE - 1) \div FRAME_SIZE)]

\* the body of deallocate_frame / of the loop of deallocate_frames for one index
dealloc_index_nocheck(fa, idx) ==
    IF idx < fa.total_frames
    THEN [fa EXCEPT !.bitmap = clear(@, idx), !.allocated_frames = @ - 1]
    ELSE fa

dealloc_index(fa, idx) ==
    IF idx < fa.total_frames /\ is_set(fa.bitmap, idx)
    THEN [fa EXCEPT !.bitmap = clear(@, idx), !.allocated_frames = @ - 1]
    ELSE fa

deallocate_frame(fa, addr) == dealloc_index(fa, frame_index(fa, addr).idx)

\* for idx in start_idx..(start_idx + count) { ... }
RECURSIVE dealloc_range(_, _, _)
dealloc_range(fa, idx, end) ==
    IF idx >= end THEN fa ELSE dealloc_range(dealloc_index(fa, idx), idx + 1, end)

deallocate_frames_first(fa, addr, count) ==
    LET start_idx == frame_index(fa, addr).idx
    IN  dealloc_range(fa, start_idx, IF count = 0 THEN start_idx ELSE start_idx + 1)

deallocate_frames(fa, addr, count) ==
    LET start_idx == frame_index(fa, addr).idx
    IN  dealloc_range(fa, start_idx, start_idx + count)

free_frames(fa) == fa.total_frames - fa.allocated_frames

allocated_frames(fa) == fa.allocated_frames

total_frames(fa) == fa.total_frames

\* allocated_frames is at most total_frames, which is memory_size / 4096 and
\* so below 2^52: the product by 100 stays inside the 64 bits of usize
usage_percent(fa) ==
    IF fa.total_frames = 0 THEN 0
    ELSE (fa.allocated_frames * 100) \div fa.total_frames

is_allocated(fa, addr) ==
    LET idx == frame_index(fa, addr).idx
    IN  idx < fa.total_frames /\ is_set(fa.bitmap, idx)

(***************************************************************************)
(* Spec: one FrameAllocator over [MEMORY_START, MEMORY_START +             *)
(* FrameCount * FRAME_SIZE), called with arbitrary arguments               *)
(***************************************************************************)
MEMORY_START == 1048576

\* ceil(n / 8): the least buffer length that holds n bits
BytesFor(n) == (n + 7) \div 8

\* the frames a call names: count frames from the frame containing addr
FramesOf(addr, count) ==
    {align_down(addr, FRAME_SIZE) + i * FRAME_SIZE : i \in 0 .. count - 1}

\* addresses passed to deallocate_frame: every frame of the region, the frame
\* below it, the frame above it, and addresses inside a frame
DeallocAddrs ==
    {MEMORY_START + k * FRAME_SIZE : k \in -1 .. FrameCount}
        \cup {MEMORY_START - 1, MEMORY_START + FRAME_SIZE + 564}

\* addresses passed to deallocate_frames: the frame below the region, a run
\* that crosses the first byte of the bitmap, a run that crosses the end of
\* the region, and the address the allocation just before returned
DeallocRunAddrs ==
    {MEMORY_START - FRAME_SIZE,
     MEMORY_START + 7 * FRAME_SIZE,
     MEMORY_START + (FrameCount - 1) * FRAME_SIZE + 564}
        \cup {last.ret[i] : i \in DOMAIN last.ret}

\* the ledger of frames handed out: an allocation adds one to each frame it
\* returns, a deallocation drops the frames it names
HandOut(ledger, frames) ==
    [a \in DOMAIN ledger \cup frames |->
        (IF a \in DOMAIN ledger THEN ledger[a] ELSE 0) + (IF a \in frames THEN 1 ELSE 0)]

TakeBack(ledger, frames) == [a \in DOMAIN ledger \ frames |-> ledger[a]]

NoCall == [op |-> "none", addr |-> 0, count |-> 0, ret |-> None]

NoMem == [a \in {} |-> 0]

\* the buffer is as long as the bits need (main.rs:50: 4096 bytes for 8192
\* frames) and holds whatever was in memory before
\* no heap, and nobody at the LockedAllocator
NoHeap == [start |-> 0, size |-> 0]

NoCtx == [c \in {} |-> 0]

Init ==
    /\ allocator = FrameAllocator_new(MEMORY_START, FrameCount * FRAME_SIZE,
                                     [i \in 0 .. BytesFor(FrameCount) - 1 |-> 255])
    /\ mapper = [pml4_address |-> 0]
    /\ mem = NoMem
    /\ last = NoCall
    /\ pre = [allocator |-> allocator, mem |-> mem]
    /\ outstanding = [a \in {} |-> 0]
    /\ panicked = FALSE
    /\ heap = NoHeap
    /\ lock = FALSE
    /\ ctx = NoCtx

Snapshot == pre' = [allocator |-> allocator, mem |-> mem]

AllocateFrame ==
    /\ ~panicked
    /\ LET r == allocate_frame(allocator)
       IN  /\ allocator' = r.fa
           /\ last' = [op |-> "allocate_frame", addr |-> 0, count |-> 1, ret |-> r.ret]
           /\ outstanding' = IF r.ret = None THEN outstanding
                             ELSE HandOut(outstanding, {r.ret[1]})
    /\ Snapshot
    /\ UNCHANGED <<mapper, heap, lock, ctx, mem, panicked>>

AllocateFrames ==
    /\ ~panicked
    /\ \E count \in 0 .. MaxCount :
         LET r == allocate_frames(allocator, count)
         IN  /\ allocator' = r.fa
             /\ last' = [op |-> "allocate_frames", addr |-> 0, count |-> count,
                         ret |-> r.ret]
             /\ outstanding' = IF r.ret = None THEN outstanding
                               ELSE HandOut(outstanding, FramesOf(r.ret[1], count))
    /\ Snapshot
    /\ UNCHANGED <<mapper, heap, lock, ctx, mem, panicked>>

\* the subtraction does not overflow, or it wraps (no overflow checks)
DeallocateFrame ==
    /\ ~panicked
    /\ \E addr \in DeallocAddrs :
         /\ allocator' = deallocate_frame(allocator, addr)
         /\ last' = [op |-> "deallocate_frame", addr |-> addr, count |-> 1, ret |-> None]
         /\ outstanding' = TakeBack(outstanding, FramesOf(addr, 1))
    /\ Snapshot
    /\ UNCHANGED <<mapper, heap, lock, ctx, mem, panicked>>

DeallocateFrames ==
    /\ ~panicked
    /\ \E addr \in DeallocRunAddrs, count \in 0 .. MaxCount :
         /\ allocator' = deallocate_frames(allocator, addr, count)
         /\ last' = [op |-> "deallocate_frames", addr |-> addr, count |-> count,
                     ret |-> None]
         /\ outstanding' = TakeBack(outstanding, FramesOf(addr, count))
    /\ Snapshot
    /\ UNCHANGED <<mapper, heap, lock, ctx, mem, panicked>>

\* the subtraction overflows in a build with overflow checks: the call panics
\* before it touches the allocator
DeallocatePanic ==
    /\ ~panicked
    /\ \E op \in {"deallocate_frame", "deallocate_frames"},
          addr \in DeallocAddrs \cup DeallocRunAddrs, count \in 0 .. MaxCount :
         /\ op = "deallocate_frame" => count = 1 /\ addr \in DeallocAddrs
         /\ op = "deallocate_frames" => addr \in DeallocRunAddrs
         /\ frame_index(allocator, addr).overflow
         /\ last' = [op |-> op, addr |-> addr, count |-> count, ret |-> None]
    /\ panicked' = TRUE
    /\ Snapshot
    /\ UNCHANGED <<allocator, mapper, heap, lock, ctx, mem, outstanding>>

Next ==
    \/ AllocateFrame
    \/ AllocateFrames
    \/ DeallocateFrame
    \/ DeallocateFrames
    \/ DeallocatePanic

Spec == Init /\ [][Next]_vars

(***************************************************************************)
(* SpecStats: a FrameAllocator over a region of any of several sizes,      *)
(* called as under Spec and asked for its statistics between the calls     *)
(***************************************************************************)
\* memory_size: no frame at all, less than one frame, three frames and a
\* rest, and the region of Spec
StatSizes == {0, FRAME_SIZE - 1, 3 * FRAME_SIZE + 100, FrameCount * FRAME_SIZE}

InitStats ==
    /\ \E memory_size \in StatSizes :
         allocator = FrameAllocator_new(MEMORY_START, memory_size,
                         [i \in 0 .. BytesFor(memory_size \div FRAME_SIZE) - 1 |-> 255])
    /\ mapper = [pml4_address |-> 0]
    /\ mem = NoMem
    /\ last = NoCall
    /\ pre = [allocator |-> allocator, mem |-> mem]
    /\ outstanding = [a \in {} |-> 0]
    /\ panicked = FALSE
    /\ heap = NoHeap
    /\ lock = FALSE
    /\ ctx = NoCtx

\* a query takes &self: it returns its value and writes nothing
Query(op, value) ==
    /\ last' = [op |-> op, addr |-> 0, count |-> 0, ret |-> Some(value)]
    /\ Snapshot
    /\ UNCHANGED <<allocator, mapper, heap, lock, ctx, mem, outstanding, panicked>>

FreeFrames ==
    /\ ~panicked
    /\ Query("free_frames", free_frames(allocator))

AllocatedFrames ==
    /\ ~panicked
    /\ Query("allocated_frames", allocated_frames(allocator))

TotalFrames ==
    /\ ~panicked
    /\ Query("total_frames", total_frames(allocator))

UsagePercent ==
    /\ ~panicked
    /\ Query("usage_percent", usage_percent(allocator))

NextStats ==
    \/ AllocateFrame
    \/ AllocateFrames
    \/ DeallocateFrame
    \/ DeallocateFrames
    \/ DeallocatePanic
    \/ FreeFrames
    \/ AllocatedFrames
    \/ TotalFrames
    \/ UsagePercent

SpecStats == InitStats /\ [][NextStats]_vars

(***************************************************************************)
(* SpecBitmap: one Bitmap over a buffer of its own, driven by set and      *)
(* clear with indices inside and outside the bitmap; the variable          *)
(* allocator holds it                                                      *)
(***************************************************************************)
\* (size, length of the buffer): a size below one byte, a full byte with a
\* buffer one byte longer than needed, a size that ends inside the second
\* byte, and a full byte
BitmapShapes == {<<5, 1>>, <<8, 2>>, <<9, 2>>, <<8, 1>>}

\* the indices passed to set and clear: every index of the bitmap, the first
\* ones behind it, and the first ones behind the buffer
BitmapIndices(bm) ==
    (0 .. bm.size + 1) \cup {8 * Cardinality(DOMAIN bm.data), 8 * Cardinality(DOMAIN bm.data) + 3}

InitBitmap ==
    /\ \E shape \in BitmapShapes :
         allocator = Bitmap_new([i \in 0 .. shape[2] - 1 |-> 255], shape[1])
    /\ mapper = [pml4_address |-> 0]
    /\ mem = NoMem
    /\ last = NoCall
    /\ pre = [allocator |-> allocator, mem |-> mem]
    /\ outstanding = [a \in {} |-> 0]
    /\ panicked = FALSE
    /\ heap = NoHeap
    /\ lock = FALSE
    /\ ctx = NoCtx

BitmapSet ==
    /\ \E index \in BitmapIndices(allocator) :
         /\ allocator' = set(allocator, index)
         /\ last' = [op |-> "set", index |-> index]
    /\ Snapshot
    /\ UNCHANGED <<mapper, heap, lock, ctx, mem, outstanding, panicked>>

BitmapClear ==
    /\ \E index \in BitmapIndices(allocator) :
         /\ allocator' = clear(allocator, index)
         /\ last' = [op |-> "clear", index |-> index]
    /\ Snapshot
    /\ UNCHANGED <<mapper, heap, lock, ctx, mem, outstanding, panicked>>

NextBitmap ==
    \/ BitmapSet
    \/ BitmapClear

SpecBitmap == InitBitmap /\ [][NextBitmap]_vars

(***************************************************************************)
(* memory/mod.rs: VirtualAddress                                           *)
(***************************************************************************)
\* (self.0 >> 39) & 0x1FF
pml4_index(v) == BitAnd(Shr(v, 39), 511)

\* (self.0 >> 30) & 0x1FF
pdpt_index(v) == BitAnd(Shr(v, 30), 511)

\* (self.0 >> 21) & 0x1FF
pd_index(v) == BitAnd(Shr(v, 21), 511)

\* (self.0 >> 12) & 0x1FF
pt_index(v) == BitAnd(Shr(v, 12), 511)

\* self.0 & 0xFFF
page_offset(v) == BitAnd(v, 4095)

(***************************************************************************)
(* memory/page_table.rs: an entry is a u64, the set of its bits that are 1 *)
(***************************************************************************)
PRESENT == {0}
WRITABLE == {1}
USER_ACCESSIBLE == {2}
WRITE_THROUGH == {3}
NO_CACHE == {4}
ACCESSED == {5}
DIRTY == {6}
HUGE_PAGE == {7}
GLOBAL == {8}
NO_EXECUTE == {63}

\* 0x000F_FFFF_FFFF_F000: bits 12-51
ADDR_MASK == 12 .. 51

\* addr.as_usize() as u64, for the addresses below 2^31 of the model
ToBits(n) == {i \in 0 .. 30 : (n \div (2 ^ i)) % 2 = 1}

\* (bits) as usize
RECURSIVE FromBits(_)
FromBits(bits) ==
    IF bits = {} THEN 0
    ELSE LET i == CHOOSE j \in bits : TRUE
         IN  2 ^ i + FromBits(bits \ {i})

\* PageTableEntry::new
entry_new == {}

\* a set_address that keeps every bit of the address
set_address_nomask(addr, flags) == addr \cup flags

\* self.entry = (addr.as_usize() as u64 & addr_mask) | flags, on the bits of
\* the address
set_address_u64(addr, flags) == (addr \cap ADDR_MASK) \cup flags

\* set_address for the addresses below 2^31 of the model
set_address(addr, flags) == set_address_u64(ToBits(addr), flags)

\* self.entry & 0x000F_FFFF_FFFF_F000: the bits of the address returned
physical_address_u64(entry) == entry \cap ADDR_MASK

physical_address(entry) == FromBits(physical_address_u64(entry))

is_present(entry) == entry \cap PRESENT # {}

is_writable(entry) == entry \cap WRITABLE # {}

is_user_accessible(entry) == entry \cap USER_ACCESSIBLE # {}

is_huge_page(entry) == entry \cap HUGE_PAGE # {}

is_no_execute(entry) == entry \cap NO_EXECUTE # {}

set_present(entry, present) ==
    IF present THEN entry \cup PRESENT ELSE entry \ PRESENT

set_writable(entry, writable) ==
    IF writable THEN entry \cup WRITABLE ELSE entry \ WRITABLE

\* self.entry & 0xFFF
flags_of(entry) == entry \cap (0 .. 11)

\* an entry whose PRESENT bit alone is reset
entry_clear_present(entry) == entry \ PRESENT

\* self.entry = 0
entry_clear(entry) == {}

\* A PageTable is its 512 entries; the model keeps the entries that are not 0.
EmptyTable == [i \in {} |-> {}]

\* &table[index]
entry_at(table, index) == IF index \in DOMAIN table THEN table[index] ELSE entry_new

\* table[index] = entry
table_put(table, index, entry) ==
    IF entry = {} THEN [i \in DOMAIN table \ {index} |-> table[i]]
    ELSE [i \in DOMAIN table \cup {index} |-> IF i = index THEN entry ELSE table[i]]

\* PageTable::zero: entry.clear() for every entry
zero(table) == EmptyTable

(***************************************************************************)
(* SpecEntry: one PageTableEntry, written with addresses and flag words    *)
(* given bit by bit; the variable allocator holds the entry                *)
(***************************************************************************)
\* the addresses: 0, one frame, an address with bits below bit 12, the
\* highest and lowest bit of the field, all bits of the field, an address
\* with bits above bit 51, and the word of all ones
EntryAddrs ==
    {{}, {12}, {0, 5, 11, 12, 13}, {12, 51}, 12 .. 51, {20, 52, 62, 63}, 0 .. 63}

\* the flag words: the combinations of five of the PageTableFlags, and the
\* other flags together
EntryFlags ==
    (SUBSET (PRESENT \cup WRITABLE \cup USER_ACCESSIBLE \cup HUGE_PAGE \cup NO_EXECUTE))
        \cup {PRESENT \cup WRITE_THROUGH \cup NO_CACHE \cup ACCESSED \cup DIRTY \cup GLOBAL}

InitEntry ==
    /\ allocator = entry_new
    /\ mapper = [pml4_address |-> 0]
    /\ mem = NoMem
    /\ last = NoCall
    /\ pre = [allocator |-> allocator, mem |-> mem]
    /\ outstanding = [a \in {} |-> 0]
    /\ panicked = FALSE
    /\ heap = NoHeap
    /\ lock = FALSE
    /\ ctx = NoCtx

EntrySetAddress ==
    /\ \E addr \in EntryAddrs, flags \in EntryFlags :
         /\ allocator' = set_address_u64(addr, flags)
         /\ last' = [op |-> "set_address", addr |-> addr, flags |-> flags]
    /\ Snapshot
    /\ UNCHANGED <<mapper, heap, lock, ctx, mem, outstanding, panicked>>

EntrySetPresent ==
    /\ \E present \in BOOLEAN :
         /\ allocator' = set_present(allocator, present)
         /\ last' = [op |-> "set_present", addr |-> {}, flags |-> {}]
    /\ Snapshot
    /\ UNCHANGED <<mapper, heap, lock, ctx, mem, outstanding, panicked>>

EntrySetWritable ==
    /\ \E writable \in BOOLEAN :
         /\ allocator' = set_writable(allocator, writable)
         /\ last' = [op |-> "set_writable", addr |-> {}, flags |-> {}]
    /\ Snapshot
    /\ UNCHANGED <<mapper, heap, lock, ctx, mem, outstanding, panicked>>

EntryClear ==
    /\ allocator' = entry_clear(allocator)
    /\ last' = [op |-> "clear", addr |-> {}, flags |-> {}]
    /\ Snapshot
    /\ UNCHANGED <<mapper, heap, lock, ctx, mem, outstanding, panicked>>

NextEntry ==
    \/ EntrySetAddress
    \/ EntrySetPresent
    \/ EntrySetWritable
    \/ EntryClear

SpecEntry == InitEntry /\ [][NextEntry]_vars

(***************************************************************************)
(* memory/paging.rs                                                        *)
(***************************************************************************)
Ok(x) == [ok |-> TRUE, val |-> x]
Err(e) == [ok |-> FALSE, err |-> e]

PageMapper_new(pml4_addr) == [pml4_address |-> pml4_addr]

\* a table creation whose failure is reported as TableCreationFailed
get_or_create_table_failed(m, fa, table_addr, index) ==
    LET entry == entry_at(m[table_addr], index)
    IN  IF is_present(entry)
        THEN [mem |-> m, fa |-> fa, ret |-> Ok(physical_address(entry))]
        ELSE LET a == allocate_frame(fa)
             IN  IF a.ret = None
                 THEN [mem |-> m, fa |-> a.fa, ret |-> Err("TableCreationFailed")]
                 ELSE LET frame == a.ret[1]
                          flags == PRESENT \cup WRITABLE
                          m1 == [m EXCEPT ![table_addr] =
                                     table_put(@, index, set_address(frame, flags))]
                          m2 == [m1 EXCEPT ![frame] = zero(@)]
                      IN  [mem |-> m2, fa |-> a.fa, ret |-> Ok(frame)]

\* a table creation that does not keep the allocator's record of the frame
get_or_create_table_unmarked(m, fa, table_addr, index) ==
    LET entry == entry_at(m[table_addr], index)
    IN  IF is_present(entry)
        THEN [mem |-> m, fa |-> fa, ret |-> Ok(physical_address(entry))]
        ELSE LET a == allocate_frame(fa)
             IN  IF a.ret = None
                 THEN [mem |-> m, fa |-> a.fa, ret |-> Err("OutOfMemory")]
                 ELSE LET frame == a.ret[1]
                          flags == PRESENT \cup WRITABLE
                          m1 == [m EXCEPT ![table_addr] =
                                     table_put(@, index, set_address(frame, flags))]
                          m2 == [m1 EXCEPT ![frame] = zero(@)]
                      IN  [mem |-> m2, fa |-> fa, ret |-> Ok(frame)]

\* a table creation that leaves in the new table what the frame held
get_or_create_table_nozero(m, fa, table_addr, index) ==
    LET entry == entry_at(m[table_addr], index)
    IN  IF is_present(entry)
        THEN [mem |-> m, fa |-> fa, ret |-> Ok(physical_address(entry))]
        ELSE LET a == allocate_frame(fa)
             IN  IF a.ret = None
                 THEN [mem |-> m, fa |-> a.fa, ret |-> Err("OutOfMemory")]
                 ELSE LET frame == a.ret[1]
                          flags == PRESENT \cup WRITABLE
                          m1 == [m EXCEPT ![table_addr] =
                                     table_put(@, index, set_address(frame, flags))]
                      IN  [mem |-> m1, fa |-> a.fa, ret |-> Ok(frame)]

\* the parent entry is table[index] of the table at table_addr; the outcome is
\* table memory and allocator afterwards and Ok(address of the lower table)
get_or_create_table(m, fa, table_addr, index) ==
    LET entry == entry_at(m[table_addr], index)
    IN  IF is_present(entry)
        THEN [mem |-> m, fa |-> fa, ret |-> Ok(physical_address(entry))]
        ELSE LET a == allocate_frame(fa)
             IN  IF a.ret = None
                 THEN [mem |-> m, fa |-> a.fa, ret |-> Err("OutOfMemory")]
                 ELSE LET frame == a.ret[1]
                          flags == PRESENT \cup WRITABLE
                          m1 == [m EXCEPT ![table_addr] =
                                     table_put(@, index, set_address(frame, flags))]
                          m2 == [m1 EXCEPT ![frame] = zero(@)]
                      IN  [mem |-> m2, fa |-> a.fa, ret |-> Ok(frame)]

\* a map_page that installs the leaf entry whatever the entry holds
map_page_overwrite(mp, m, fa, virt_addr, phys_addr, flags) ==
    IF ~is_aligned(virt_addr, PAGE_SIZE) \/ ~is_aligned(phys_addr, PAGE_SIZE)
    THEN [mem |-> m, fa |-> fa, ret |-> Err("InvalidAddress")]
    ELSE
    LET pdpt == get_or_create_table(m, fa, mp.pml4_address, pml4_index(virt_addr))
    IN  IF ~pdpt.ret.ok THEN pdpt ELSE
    LET pd == get_or_create_table(pdpt.mem, pdpt.fa, pdpt.ret.val, pdpt_index(virt_addr))
    IN  IF ~pd.ret.ok THEN pd ELSE
    LET pt == get_or_create_table(pd.mem, pd.fa, pd.ret.val, pd_index(virt_addr))
    IN  IF ~pt.ret.ok THEN pt ELSE
    LET pt_idx == pt_index(virt_addr)
    IN  [mem |-> [pt.mem EXCEPT ![pt.ret.val] =
                     table_put(@, pt_idx, set_address(phys_addr, flags))],
         fa  |-> pt.fa,
         ret |-> Ok(<<>>)]

\* a map_page that checks the alignment of the virtual address only
map_page_virt_only(mp, m, fa, virt_addr, phys_addr, flags) ==
    IF ~is_aligned(virt_addr, PAGE_SIZE)
    THEN [mem |-> m, fa |-> fa, ret |-> Err("InvalidAddress")]
    ELSE
    LET pdpt == get_or_create_table(m, fa, mp.pml4_address, pml4_index(virt_addr))
    IN  IF ~pdpt.ret.ok THEN pdpt ELSE
    LET pd == get_or_create_table(pdpt.mem, pdpt.fa, pdpt.ret.val, pdpt_index(virt_addr))
    IN  IF ~pd.ret.ok THEN pd ELSE
    LET pt == get_or_create_table(pd.mem, pd.fa, pd.ret.val, pd_index(virt_addr))
    IN  IF ~pt.ret.ok THEN pt ELSE
    LET pt_idx == pt_index(virt_addr)
        entry  == entry_at(pt.mem[pt.ret.val], pt_idx)
    IN  IF is_present(entry)
        THEN [mem |-> pt.mem, fa |-> pt.fa, ret |-> Err("PageAlreadyMapped")]
        ELSE [mem |-> [pt.mem EXCEPT ![pt.ret.val] =
                          table_put(@, pt_idx, set_address(phys_addr, flags))],
              fa  |-> pt.fa,
              ret |-> Ok(<<>>)]

\* a map_page that writes the leaf entry before it reports the page as mapped
map_page_leaf_first(mp, m, fa, virt_addr, phys_addr, flags) ==
    IF ~is_aligned(virt_addr, PAGE_SIZE) \/ ~is_aligned(phys_addr, PAGE_SIZE)
    THEN [mem |-> m, fa |-> fa, ret |-> Err("InvalidAddress")]
    ELSE
    LET pdpt == get_or_create_table(m, fa, mp.pml4_address, pml4_index(virt_addr))
    IN  IF ~pdpt.ret.ok THEN pdpt ELSE
    LET pd == get_or_create_table(pdpt.mem, pdpt.fa, pdpt.ret.val, pdpt_index(virt_addr))
    IN  IF ~pd.ret.ok THEN pd ELSE
    LET pt == get_or_create_table(pd.mem, pd.fa, pd.ret.val, pd_index(virt_addr))
    IN  IF ~pt.ret.ok THEN pt ELSE
    LET pt_idx == pt_index(virt_addr)
        entry  == entry_at(pt.mem[pt.ret.val], pt_idx)
    IN  [mem |-> [pt.mem EXCEPT ![pt.ret.val] =
                     table_put(@, pt_idx, set_address(phys_addr, flags))],
         fa  |-> pt.fa,
         ret |-> IF is_present(entry) THEN Err("PageAlreadyMapped") ELSE Ok(<<>>)]

map_page(mp, m, fa, virt_addr, phys_addr, flags) ==
    IF ~is_aligned(virt_addr, PAGE_SIZE) \/ ~is_aligned(phys_addr, PAGE_SIZE)
    THEN [mem |-> m, fa |-> fa, ret |-> Err("InvalidAddress")]
    ELSE
    LET pdpt == get_or_create_table(m, fa, mp.pml4_address, pml4_index(virt_addr))
    IN  IF ~pdpt.ret.ok THEN pdpt ELSE
    LET pd == get_or_create_table(pdpt.mem, pdpt.fa, pdpt.ret.val, pdpt_index(virt_addr))
    IN  IF ~pd.ret.ok THEN pd ELSE
    LET pt == get_or_create_table(pd.mem, pd.fa, pd.ret.val, pd_index(virt_addr))
    IN  IF ~pt.ret.ok THEN pt ELSE
    LET pt_idx == pt_index(virt_addr)
        entry  == entry_at(pt.mem[pt.ret.val], pt_idx)
    IN  IF is_present(entry)
        THEN [mem |-> pt.mem, fa |-> pt.fa, ret |-> Err("PageAlreadyMapped")]
        ELSE [mem |-> [pt.mem EXCEPT ![pt.ret.val] =
                          table_put(@, pt_idx, set_address(phys_addr, flags))],
              fa  |-> pt.fa,
              ret |-> Ok(<<>>)]

\* an unmap_page without the alignment check
unmap_page_unchecked(mp, m, virt_addr) ==
    LET pml4_entry == entry_at(m[mp.pml4_address], pml4_index(virt_addr))
    IN  IF ~is_present(pml4_entry) THEN [mem |-> m, ret |-> Err("InvalidAddress")] ELSE
    LET pdpt_entry == entry_at(m[physical_address(pml4_entry)], pdpt_index(virt_addr))
    IN  IF ~is_present(pdpt_entry) THEN [mem |-> m, ret |-> Err("InvalidAddress")] ELSE
    LET pd_entry == entry_at(m[physical_address(pdpt_entry)], pd_index(virt_addr))
    IN  IF ~is_present(pd_entry) THEN [mem |-> m, ret |-> Err("InvalidAddress")] ELSE
    LET pt_addr == physical_address(pd_entry)
        pt_idx  == pt_index(virt_addr)
        entry   == entry_at(m[pt_addr], pt_idx)
    IN  IF ~is_present(entry) THEN [mem |-> m, ret |-> Err("InvalidAddress")]
        ELSE [mem |-> [m EXCEPT ![pt_addr] = table_put(@, pt_idx, entry_clear(entry))],
              ret |-> Ok(physical_address(entry))]

\* an unmap_page that clears the whole page table of the page
unmap_page_table(mp, m, virt_addr) ==
    IF ~is_aligned(virt_addr, PAGE_SIZE)
    THEN [mem |-> m, ret |-> Err("InvalidAddress")]
    ELSE
    LET pml4_entry == entry_at(m[mp.pml4_address], pml4_index(virt_addr))
    IN  IF ~is_present(pml4_entry) THEN [mem |-> m, ret |-> Err("InvalidAddress")] ELSE
    LET pdpt_entry == entry_at(m[physical_address(pml4_entry)], pdpt_index(virt_addr))
    IN  IF ~is_present(pdpt_entry) THEN [mem |-> m, ret |-> Err("InvalidAddress")] ELSE
    LET pd_entry == entry_at(m[physical_address(pdpt_entry)], pd_index(virt_addr))
    IN  IF ~is_present(pd_entry) THEN [mem |-> m, ret |-> Err("InvalidAddress")] ELSE
    LET pt_addr == physical_address(pd_entry)
        pt_idx  == pt_index(virt_addr)
        entry   == entry_at(m[pt_addr], pt_idx)
    IN  IF ~is_present(entry) THEN [mem |-> m, ret |-> Err("InvalidAddress")]
        ELSE [mem |-> [m EXCEPT ![pt_addr] = EmptyTable],
              ret |-> Ok(physical_address(entry))]

\* an unmap_page that takes the page table out of the page directory
unmap_page_prune(mp, m, virt_addr) ==
    IF ~is_aligned(virt_addr, PAGE_SIZE)
    THEN [mem |-> m, ret |-> Err("InvalidAddress")]
    ELSE
    LET pml4_entry == entry_at(m[mp.pml4_address], pml4_index(virt_addr))
    IN  IF ~is_present(pml4_entry) THEN [mem |-> m, ret |-> Err("InvalidAddress")] ELSE
    LET pdpt_entry == entry_at(m[physical_address(pml4_entry)], pdpt_index(virt_addr))
    IN  IF ~is_present(pdpt_entry) THEN [mem |-> m, ret |-> Err("InvalidAddress")] ELSE
    LET pd_entry == entry_at(m[physical_address(pdpt_entry)], pd_index(virt_addr))
    IN  IF ~is_present(pd_entry) THEN [mem |-> m, ret |-> Err("InvalidAddress")] ELSE
    LET pt_addr == physical_address(pd_entry)
        pt_idx  == pt_index(virt_addr)
        entry   == entry_at(m[pt_addr], pt_idx)
    IN  IF ~is_present(entry) THEN [mem |-> m, ret |-> Err("InvalidAddress")]
        ELSE [mem |-> [m EXCEPT ![pt_addr] = table_put(@, pt_idx, entry_clear(entry)),
                              ![physical_address(pdpt_entry)] =
                                  table_put(@, pd_index(virt_addr), entry_new)],
              ret |-> Ok(physical_address(entry))]

unmap_page(mp, m, virt_addr) ==
    IF ~is_aligned(virt_addr, PAGE_SIZE)
    THEN [mem |-> m, ret |-> Err("InvalidAddress")]
    ELSE
    LET pml4_entry == entry_at(m[mp.pml4_address], pml4_index(virt_addr))
    IN  IF ~is_present(pml4_entry) THEN [mem |-> m, ret |-> Err("InvalidAddress")] ELSE
    LET pdpt_entry == entry_at(m[physical_address(pml4_entry)], pdpt_index(virt_addr))
    IN  IF ~is_present(pdpt_entry) THEN [mem |-> m, ret |-> Err("InvalidAddress")] ELSE
    LET pd_entry == entry_at(m[physical_address(pdpt_entry)], pd_index(virt_addr))
    IN  IF ~is_present(pd_entry) THEN [mem |-> m, ret |-> Err("InvalidAddress")] ELSE
    LET pt_addr == physical_address(pd_entry)
        pt_idx  == pt_index(virt_addr)
        entry   == entry_at(m[pt_addr], pt_idx)
    IN  IF ~is_present(entry) THEN [mem |-> m, ret |-> Err("InvalidAddress")]
        ELSE [mem |-> [m EXCEPT ![pt_addr] = table_put(@, pt_idx, entry_clear(entry))],
              ret |-> Ok(physical_address(entry))]

\* a walk that returns the frame address of the leaf, without the offset
translate_frame(mp, m, virt_addr) ==
    LET pml4_entry == entry_at(m[mp.pml4_address], pml4_index(virt_addr))
    IN  IF ~is_present(pml4_entry) THEN None ELSE
    LET pdpt_entry == entry_at(m[physical_address(pml4_entry)], pdpt_index(virt_addr))
    IN  IF ~is_present(pdpt_entry) THEN None ELSE
    LET pd_entry == entry_at(m[physical_address(pdpt_entry)], pd_index(virt_addr))
    IN  IF ~is_present(pd_entry) THEN None ELSE
    LET pt_entry == entry_at(m[physical_address(pd_entry)], pt_index(virt_addr))
    IN  IF ~is_present(pt_entry) THEN None
        ELSE Some(physical_address(pt_entry))

translate(mp, m, virt_addr) ==
    LET pml4_entry == entry_at(m[mp.pml4_address], pml4_index(virt_addr))
    IN  IF ~is_present(pml4_entry) THEN None ELSE
    LET pdpt_entry == entry_at(m[physical_address(pml4_entry)], pdpt_index(virt_addr))
    IN  IF ~is_present(pdpt_entry) THEN None ELSE
    LET pd_entry == entry_at(m[physical_address(pdpt_entry)], pd_index(virt_addr))
    IN  IF ~is_present(pd_entry) THEN None ELSE
    LET pt_entry == entry_at(m[physical_address(pd_entry)], pt_index(virt_addr))
    IN  IF ~is_present(pt_entry) THEN None
        ELSE Some(physical_address(pt_entry) + page_offset(virt_addr))

\* the loop of identity_map_range from current on, r being the outcome of
\* the steps before it; it stops at the first map_page that fails and returns
\* its outcome
RECURSIVE imr_loop_skip(_, _, _, _, _)
RECURSIVE imr_loop(_, _, _, _, _)

\* a loop that drops the error of a map_page and goes on with the next page
imr_loop_skip(mp, r, current, end_aligned, flags) ==
    IF ~(current < end_aligned)
    THEN r
    ELSE imr_loop_skip(mp, map_page(mp, r.mem, r.fa, current, current, flags),
                       current + PAGE_SIZE, end_aligned, flags)

imr_loop(mp, r, current, end_aligned, flags) ==
    IF ~r.ret.ok \/ ~(current < end_aligned)
    THEN r
    ELSE imr_loop(mp, map_page(mp, r.mem, r.fa, current, current, flags),
                  current + PAGE_SIZE, end_aligned, flags)

identity_map_range(mp, m, fa, start, size, flags) ==
    imr_loop(mp, [mem |-> m, fa |-> fa, ret |-> Ok(<<>>)],
             align_down(start, PAGE_SIZE), align_up(start + size, PAGE_SIZE),
             flags)

(***************************************************************************)
(* SpecPM: one PageMapper whose PML4 lies at PML4_ADDR, outside the region *)
(* [MEMORY_START, MEMORY_START + PmFrameCount * FRAME_SIZE) of the         *)
(* FrameAllocator it draws its tables from; other users of the allocator   *)
(* take frames from it as well                                             *)
(***************************************************************************)
PML4_ADDR == 4096

\* virtual pages: two that share a page table, and one under another PDPT
\* entry with a page directory and a page table of its own
VirtPages == {4096, 8192, 1073741824 + 2097152 + 4096}

\* and an address inside a page
VirtAddrs == VirtPages \cup {4096 + 564}

\* the (virtual address, physical address, flags) passed to map_page: every
\* page with three kinds of leaf, and a misaligned address on either side
MapCalls ==
    (VirtPages \X {<<20480, PRESENT>>,
                   <<24576, PRESENT \cup USER_ACCESSIBLE \cup NO_EXECUTE>>,
                   <<20480, WRITABLE>>})
        \cup {<<4096 + 564, <<20480, PRESENT>> >>,
              <<4096, <<20480 + 564, PRESENT>> >>}

\* the (start, size, flags) passed to identity_map_range: a range that starts
\* and ends inside a page, an empty range, and a range across a page boundary
\* under the other PDPT entry; the sums start + size stay far below the width
\* of usize
IdRanges ==
    {<<4096 + 564, 4096, PRESENT>>,
     <<8192, 0, PRESENT>>,
     <<1073741824 + 2097152 + 4096 - 1, 2, PRESENT \cup WRITABLE>>}

\* what a frame holds before a table is made of it: entries left over from
\* an earlier use
StaleTable == [i \in 0 .. 2 |-> set_address(PML4_ADDR, PRESENT \cup WRITABLE)]

PmFrames == {MEMORY_START + k * FRAME_SIZE : k \in 0 .. PmFrameCount - 1}

InitPM ==
    /\ allocator = FrameAllocator_new(MEMORY_START, PmFrameCount * FRAME_SIZE,
                                     [i \in 0 .. BytesFor(PmFrameCount) - 1 |-> 255])
    /\ mapper = PageMapper_new(PML4_ADDR)
    /\ mem = [a \in PmFrames \cup {PML4_ADDR} |->
                 IF a = PML4_ADDR THEN EmptyTable ELSE StaleTable]
    /\ last = NoCall
    /\ pre = [allocator |-> allocator, mem |-> mem]
    /\ outstanding = [a \in {} |-> 0]
    /\ panicked = FALSE
    /\ heap = NoHeap
    /\ lock = FALSE
    /\ ctx = NoCtx

\* the frames a call took from the allocator
Taken(before, after) ==
    {before.start_address + i * FRAME_SIZE :
        i \in {j \in 0 .. before.total_frames - 1 :
                  is_set(after.bitmap, j) /\ ~is_set(before.bitmap, j)}}

\* what the caller of a PageMapper method sees when it returns r: the
\* memory and the allocator as the method left them, and the frames the
\* method took out of the allocator as handed out
Returns(r, call) ==
    /\ mem' = r.mem
    /\ allocator' = r.fa
    /\ last' = [call EXCEPT !.ret = r.ret]
    /\ outstanding' = HandOut(outstanding, Taken(allocator, r.fa))

MapPage ==
    /\ ~panicked
    /\ \E call \in MapCalls :
         Returns(map_page(mapper, mem, allocator, call[1], call[2][1], call[2][2]),
                 [op |-> "map_page", virt |-> call[1], phys |-> call[2][1],
                  flags |-> call[2][2], ret |-> Ok(<<>>)])
    /\ Snapshot
    /\ UNCHANGED <<mapper, heap, lock, ctx, panicked>>

UnmapPage ==
    /\ ~panicked
    /\ \E virt \in VirtAddrs :
         Returns([fa |-> allocator] @@ unmap_page(mapper, mem, virt),
                 [op |-> "unmap_page", virt |-> virt, ret |-> Ok(<<>>)])
    /\ Snapshot
    /\ UNCHANGED <<mapper, heap, lock, ctx, panicked>>

IdentityMapRange ==
    /\ ~panicked
    /\ \E call \in IdRanges :
         Returns(identity_map_range(mapper, mem, allocator, call[1], call[2], call[3]),
                 [op |-> "identity_map_range", start |-> call[1],
                  size |-> call[2], flags |-> call[3], ret |-> Ok(<<>>)])
    /\ Snapshot
    /\ UNCHANGED <<mapper, heap, lock, ctx, panicked>>

\* translate takes &self: it returns its value and writes nothing
Translate ==
    /\ ~panicked
    /\ \E virt \in VirtAddrs :
         last' = [op |-> "translate", virt |-> virt,
                  ret |-> translate(mapper, mem, virt)]
    /\ Snapshot
    /\ UNCHANGED <<allocator, mapper, heap, lock, ctx, mem, outstanding, panicked>>

NextPM ==
    \/ MapPage
    \/ UnmapPage
    \/ IdentityMapRange
    \/ Translate
    \/ AllocateFrame

SpecPM == InitPM /\ [][NextPM]_vars

(***************************************************************************)
(* allocator/bump.rs                                                       *)
(***************************************************************************)
\* The number of values of usize. The integers of TLC end at 2^31, so a word
\* of 30 bits stands for the word of 64: additions of two words stay inside
\* the integers, and an address near USIZE_WRAP is one near the top of the
\* address space.
USIZE_WRAP == 2 ^ 30

\* ptr::null_mut()
NULL == 0

saturating_sub(a, b) == IF a > b THEN a - b ELSE 0

BumpAllocator_new == [heap_start |-> 0, heap_end |-> 0, next |-> 0, allocations |-> 0]

bump_init(b, heap_start, heap_size) ==
    [heap_start  |-> heap_start,
     heap_end    |-> heap_start + heap_size,
     next        |-> heap_start,
     allocations |-> 0]

\* (addr + align - 1) & !(align - 1) on usize. The sum addr + align overflows
\* when it reaches USIZE_WRAP: a build with overflow checks panics there, a
\* build without them goes on with the wrapped value.
bump_align_up(addr, align) ==
    LET sum   == (addr + align) % USIZE_WRAP
        minus == (sum + USIZE_WRAP - 1) % USIZE_WRAP
    IN  [overflow |-> addr + align >= USIZE_WRAP,
         val      |-> BitAnd(minus, USIZE_WRAP - align)]

\* an alloc that returns the block and leaves the cursor where it was
bump_alloc_nobump(b, size, align) ==
    LET a           == bump_align_up(b.next, align)
        alloc_start == a.val
        alloc_end   == alloc_start + size
    IN  IF alloc_end >= USIZE_WRAP
        THEN [b |-> b, ret |-> NULL, overflow |-> a.overflow]
        ELSE IF alloc_end > b.heap_end
        THEN [b |-> b, ret |-> NULL, overflow |-> a.overflow]
        ELSE [b |-> [b EXCEPT !.allocations = @ + 1],
              ret |-> alloc_start, overflow |-> a.overflow]

\* the outcome of alloc in a build where align_up wraps: the allocator
\* afterwards, the pointer returned, and whether align_up overflowed (a build
\* with overflow checks panics then). checked_add fails when the end of the
\* block is no usize, and alloc returns the null pointer.
bump_alloc(b, size, align) ==
    LET a           == bump_align_up(b.next, align)
        alloc_start == a.val
        alloc_end   == alloc_start + size
    IN  IF alloc_end >= USIZE_WRAP
        THEN [b |-> b, ret |-> NULL, overflow |-> a.overflow]
        ELSE IF alloc_end > b.heap_end
        THEN [b |-> b, ret |-> NULL, overflow |-> a.overflow]
        ELSE [b |-> [b EXCEPT !.next = alloc_end, !.allocations = @ + 1],
              ret |-> alloc_start, overflow |-> a.overflow]

bump_dealloc(b, ptr, size, align) == b

bump_stats(b) ==
    [heap_start |-> b.heap_start,
     heap_size  |-> b.heap_end - b.heap_start,
     used       |-> saturating_sub(b.next, b.heap_start),
     free       |-> saturating_sub(b.heap_end, b.next)]

\* a reset that rewinds the cursor and keeps the counter
bump_reset_cursor(b) == [b EXCEPT !.next = b.heap_start]

bump_reset(b) == [b EXCEPT !.next = b.heap_start, !.allocations = 0]

allocation_count(b) == b.allocations

(***************************************************************************)
(* SpecBump: one BumpAllocator after init over one of the regions of       *)
(* BumpHeaps; the variable allocator holds it, and outstanding holds the   *)
(* (pointer, size) of every block a successful alloc has returned since    *)
(* init or the last reset                                                  *)
(***************************************************************************)
\* the allocations the counter may reach before a reset
MaxAllocs == 4

\* (heap_start, heap_size): the regions of test_out_of_memory and of the other
\* tests, and a region that ends 16 bytes below the top of the address space
BumpHeaps == {<<65536, 64>>, <<65536, 4096>>, <<USIZE_WRAP - 64, 48>>}

\* (size, align) of the layouts requested
BumpLayouts == {<<0, 1>>, <<1, 1>>, <<16, 8>>, <<32, 8>>, <<64, 1>>, <<8, 32>>}

InitBump ==
    /\ \E h \in BumpHeaps :
         /\ allocator = bump_init(BumpAllocator_new, h[1], h[2])
         /\ heap = [start |-> h[1], size |-> h[2]]
    /\ mapper = [pml4_address |-> 0]
    /\ mem = NoMem
    /\ last = NoCall
    /\ pre = [allocator |-> allocator, mem |-> mem]
    /\ outstanding = {}
    /\ panicked = FALSE
    /\ lock = FALSE
    /\ ctx = NoCtx

BumpAlloc ==
    /\ ~panicked
    /\ allocator.allocations < MaxAllocs
    /\ \E l \in BumpLayouts :
         LET r == bump_alloc(allocator, l[1], l[2])
         IN  /\ allocator' = r.b
             /\ last' = [op |-> "alloc", size |-> l[1], align |-> l[2], ret |-> r.ret]
             /\ outstanding' = IF r.ret = NULL THEN outstanding
                               ELSE outstanding \cup {<<r.ret, l[1]>>}
    /\ Snapshot
    /\ UNCHANGED <<mapper, heap, lock, ctx, mem, panicked>>

\* align_up overflows in a build with overflow checks: alloc panics before it
\* touches the allocator
BumpAllocPanic ==
    /\ ~panicked
    /\ allocator.allocations < MaxAllocs
    /\ \E l \in BumpLayouts :
         /\ bump_alloc(allocator, l[1], l[2]).overflow
         /\ last' = [op |-> "alloc", size |-> l[1], align |-> l[2], ret |-> NULL]
    /\ panicked' = TRUE
    /\ Snapshot
    /\ UNCHANGED <<allocator, mapper, heap, lock, ctx, mem, outstanding>>

BumpDealloc ==
    /\ ~panicked
    /\ \E ptr \in {NULL, allocator.heap_start, allocator.next}, l \in BumpLayouts :
         /\ allocator' = bump_dealloc(allocator, ptr, l[1], l[2])
         /\ last' = [op |-> "dealloc", ptr |-> ptr, size |-> l[1], align |-> l[2]]
    /\ Snapshot
    /\ UNCHANGED <<mapper, heap, lock, ctx, mem, outstanding, panicked>>

BumpReset ==
    /\ ~panicked
    /\ allocator' = bump_reset(allocator)
    /\ last' = [op |-> "reset"]
    /\ outstanding' = {}
    /\ Snapshot
    /\ UNCHANGED <<mapper, heap, lock, ctx, mem, panicked>>

NextBump ==
    \/ BumpAlloc
    \/ BumpAllocPanic
    \/ BumpDealloc
    \/ BumpReset

SpecBump == InitBump /\ [][NextBump]_vars

(***************************************************************************)
(* allocator/mod.rs: the LockedAllocator, a BumpAllocator inside a         *)
(* spin::Mutex. A request is `self.inner.lock().alloc(layout)` (or         *)
(* dealloc): the caller spins until it holds the lock, calls the inner     *)
(* allocator, and drops the guard when the call has returned.              *)
(* SpecLocked: the boot path main, an interrupt handler irq that runs on   *)
(* top of main on the same core, and a second core cpu1, all using the one *)
(* ALLOCATOR after init_heap. outstanding holds the (pointer, size) of     *)
(* every block a successful alloc returned.                                *)
(***************************************************************************)
Contexts == {"main", "irq", "cpu1"}

\* (heap_start, heap_size): the region of test_out_of_memory, and a region
\* of 15 bytes that ends 16 bytes below the top of the address space
LockedHeaps == {<<65536, 64>>, <<USIZE_WRAP - 31, 15>>}

\* (size, align) of the layouts requested; the largest is 15 bytes short of
\* half the address space (a Layout holds at most isize::MAX bytes)
LockedLayouts == {<<1, 1>>, <<8, 32>>, <<(USIZE_WRAP \div 2) - 16, 1>>}

Idle == [pc |-> "idle", op |-> "none", ptr |-> NULL, size |-> 0, align |-> 1]

\* the requests a context may make: an alloc of one of the layouts, or a
\* dealloc of a block an alloc returned
Requests ==
    {[pc |-> "lock", op |-> "alloc", ptr |-> NULL, size |-> l[1], align |-> l[2]] :
        l \in LockedLayouts}
    \cup {[pc |-> "lock", op |-> "dealloc", ptr |-> b[1], size |-> b[2], align |-> 1] :
             b \in outstanding}

\* the interrupt handler runs on the core of main: main executes nothing
\* between the entry of the handler and its return
Runs(c) == c = "main" => ctx["irq"].pc = "idle"

\* the alloc requests that have not reached the inner allocator yet
Pending == {c \in Contexts : ctx[c].op = "alloc" /\ ctx[c].pc \in {"lock", "held"}}

InitLocked ==
    /\ \E h \in LockedHeaps :
         /\ allocator = bump_init(BumpAllocator_new, h[1], h[2])
         /\ heap = [start |-> h[1], size |-> h[2]]
    /\ mapper = [pml4_address |-> 0]
    /\ mem = NoMem
    /\ last = NoCall
    /\ pre = [allocator |-> allocator, mem |-> mem]
    /\ outstanding = {}
    /\ panicked = FALSE
    /\ lock = FALSE
    /\ ctx = [c \in Contexts |-> Idle]

\* a context enters GlobalAlloc::alloc or GlobalAlloc::dealloc
Call(c) ==
    /\ ~panicked
    /\ Runs(c)
    /\ ctx[c].pc = "idle"
    /\ \E req \in Requests :
         /\ req.op = "alloc" =>
                allocator.allocations + Cardinality(Pending) < MaxAllocs
         /\ ctx' = [ctx EXCEPT ![c] = req]
    /\ UNCHANGED <<allocator, mapper, mem, last, pre, outstanding, panicked, heap, lock>>

\* self.inner.lock(): the compare-and-swap of the spin loop succeeds; while
\* the lock is held the loop goes round and changes nothing
Lock(c) ==
    /\ ~panicked
    /\ Runs(c)
    /\ ctx[c].pc = "lock"
    /\ lock = FALSE
    /\ lock' = TRUE
    /\ ctx' = [ctx EXCEPT ![c].pc = "held"]
    /\ UNCHANGED <<allocator, mapper, mem, last, pre, outstanding, panicked, heap>>

\* the call of the inner allocator through the guard, in a build where
\* align_up wraps
Delegate(c) ==
    /\ ~panicked
    /\ Runs(c)
    /\ ctx[c].pc = "held"
    /\ IF ctx[c].op = "alloc"
       THEN LET r == bump_alloc(allocator, ctx[c].size, ctx[c].align)
            IN  /\ allocator' = r.b
                /\ ctx' = [ctx EXCEPT ![c].pc = "unlock", ![c].ptr = r.ret]
                /\ outstanding' =
                       IF r.ret = NULL THEN outstanding
                       ELSE outstanding \cup {<<r.ret, ctx[c].size>>}
       ELSE /\ allocator' = bump_dealloc(allocator, ctx[c].ptr, ctx[c].size, ctx[c].align)
            /\ ctx' = [ctx EXCEPT ![c].pc = "unlock"]
            /\ UNCHANGED outstanding
    /\ UNCHANGED <<mapper, mem, last, pre, panicked, heap, lock>>

\* align_up overflows in a build with overflow checks: the inner alloc
\* panics with the lock held, and the panic handler halts the kernel
DelegatePanic(c) ==
    /\ ~panicked
    /\ Runs(c)
    /\ ctx[c].pc = "held"
    /\ ctx[c].op = "alloc"
    /\ bump_alloc(allocator, ctx[c].size, ctx[c].align).overflow
    /\ panicked' = TRUE
    /\ UNCHANGED <<allocator, mapper, mem, last, pre, outstanding, heap, lock, ctx>>

\* the guard is dropped at the end of the statement and the request returns
Unlock(c) ==
    /\ ~panicked
    /\ Runs(c)
    /\ ctx[c].pc = "unlock"
    /\ lock' = FALSE
    /\ ctx' = [ctx EXCEPT ![c] = Idle]
    /\ UNCHANGED <<allocator, mapper, mem, last, pre, outstanding, panicked, heap>>

NextLocked ==
    \/ \E c \in Contexts : Call(c)
    \/ \E c \in Contexts : Lock(c)
    \/ \E c \in Contexts : Delegate(c)
    \/ \E c \in Contexts : DelegatePanic(c)
    \/ \E c \in Contexts : Unlock(c)

SpecLocked == InitLocked /\ [][NextLocked]_vars

\* a context that runs goes on with its request: it calls the inner
\* allocator once it holds the lock and drops the guard afterwards, and its
\* spin loop gets the lock if the lock is free again and again
FairLocked ==
    \A c \in Contexts :
        /\ SF_vars(Lock(c))
        /\ WF_vars(Delegate(c))
        /\ WF_vars(Unlock(c))

FairSpecLocked == SpecLocked /\ FairLocked

(***************************************************************************)
(* allocator/linked_list.rs                                                *)
(* The free list lives in the heap: mem[a] is the ListNode written at      *)
(* address a, the allocator holds the head node.                           *)
(***************************************************************************)
\* mem::size_of::<ListNode>(): a usize and a reference, 8 bytes each
MIN_BLOCK_SIZE == 16

\* mem::align_of::<ListNode>()
NODE_ALIGN == 8

ListNode_new(size) == [size |-> size, next |-> None]

LinkedListAllocator_new == [head |-> ListNode_new(0)]

\* self.start_addr() + self.size of the node at address a, on usize
end_addr(m, a) ==
    [overflow |-> a + m[a].size >= USIZE_WRAP,
     val      |-> (a + m[a].size) % USIZE_WRAP]

\* (addr + align - 1) & !(align - 1) on usize, as in bump.rs
ll_align_up(addr, align) ==
    LET sum   == (addr + align) % USIZE_WRAP
        minus == (sum + USIZE_WRAP - 1) % USIZE_WRAP
    IN  [overflow |-> addr + align >= USIZE_WRAP,
         val      |-> BitAnd(minus, USIZE_WRAP - align)]

\* the outcome: allocator and heap afterwards, and whether an assert failed
add_free_region(al, m, addr, size) ==
    LET node == [size |-> size, next |-> al.head.next]
    IN  IF size < MIN_BLOCK_SIZE \/ addr % NODE_ALIGN # 0
        THEN [al |-> al, mem |-> m, assert |-> TRUE]
        ELSE [al     |-> [al EXCEPT !.head.next = Some(addr)],
              mem    |-> [x \in DOMAIN m \cup {addr} |-> IF x = addr THEN node ELSE m[x]],
              assert |-> FALSE]

ll_init(al, m, heap_start, heap_size) == add_free_region(al, m, heap_start, heap_size)

\* Ok(alloc_start) or Err(()) for the node at address a; overflow tells
\* whether an unchecked addition that was evaluated overflowed
alloc_from_region(m, a, size, align) ==
    LET up          == ll_align_up(a, align)
        alloc_start == up.val
        alloc_end   == alloc_start + size
        end         == end_addr(m, a)
        excess_size == end.val - alloc_end
    IN  IF alloc_end >= USIZE_WRAP
        THEN [ret |-> Err(<<>>), overflow |-> up.overflow]
        ELSE IF alloc_end > end.val
        THEN [ret |-> Err(<<>>), overflow |-> up.overflow \/ end.overflow]
        ELSE IF excess_size > 0 /\ excess_size < MIN_BLOCK_SIZE
        THEN [ret |-> Err(<<>>), overflow |-> up.overflow \/ end.overflow]
        ELSE [ret |-> Ok(alloc_start), overflow |-> up.overflow \/ end.overflow]

\* current.next, where current is the head (None) or the node at an address
next_of(al, m, current) ==
    IF current = None THEN al.head.next ELSE m[current[1]].next

\* the loop of find_region from current on: the first node that
\* alloc_from_region accepts is unlinked and returned with alloc_start
RECURSIVE find_loop(_, _, _, _, _, _)
find_loop(al, m, current, size, align, overflow) ==
    IF next_of(al, m, current) = None
    THEN [al |-> al, mem |-> m, ret |-> None, overflow |-> overflow]
    ELSE LET region == next_of(al, m, current)[1]
             r      == alloc_from_region(m, region, size, align)
             next   == m[region].next
             m1     == [m EXCEPT ![region].next = None]
         IN  IF r.ret.ok
             THEN [al       |-> IF current = None THEN [al EXCEPT !.head.next = next]
                                ELSE al,
                   mem      |-> IF current = None THEN m1
                                ELSE [m1 EXCEPT ![current[1]].next = next],
                   ret      |-> Some(<<region, r.ret.val>>),
                   overflow |-> overflow \/ r.overflow]
             ELSE find_loop(al, m, Some(region), size, align, overflow \/ r.overflow)

find_region(al, m, size, align) == find_loop(al, m, None, size, align, FALSE)

\* layout.size().max(MIN_BLOCK_SIZE) aligned up to the alignment of ListNode
rounded_size(layout_size) ==
    ll_align_up(IF layout_size > MIN_BLOCK_SIZE THEN layout_size ELSE MIN_BLOCK_SIZE,
                NODE_ALIGN).val

\* an alloc that hands out the block and forgets what is left of the region
ll_alloc_noremainder(al, m, layout_size, align) ==
    LET size == rounded_size(layout_size)
        f    == find_region(al, m, size, align)
    IN  IF f.ret = None
        THEN [al |-> al, mem |-> m, ret |-> NULL, overflow |-> f.overflow,
              assert |-> FALSE]
        ELSE [al |-> f.al,
              mem |-> [x \in DOMAIN f.mem \ {f.ret[1][1]} |-> f.mem[x]],
              ret |-> f.ret[1][2],
              overflow |-> f.overflow \/ end_addr(f.mem, f.ret[1][1]).overflow,
              assert |-> FALSE]

\* the outcome of alloc in a build where additions wrap: allocator and heap
\* afterwards, the pointer returned, whether an addition overflowed (a build
\* with overflow checks panics then) and whether an assert failed. The node
\* of the region taken is the caller's memory afterwards.
ll_alloc(al, m, layout_size, align) ==
    LET size == rounded_size(layout_size)
        f    == find_region(al, m, size, align)
    IN  IF f.ret = None
        THEN [al |-> al, mem |-> m, ret |-> NULL, overflow |-> f.overflow,
              assert |-> FALSE]
        ELSE LET region      == f.ret[1][1]
                 alloc_start == f.ret[1][2]
                 alloc_end   == alloc_start + size
                 end         == end_addr(f.mem, region)
                 excess_size == end.val - alloc_end
                 m2          == [x \in DOMAIN f.mem \ {region} |-> f.mem[x]]
                 back        == add_free_region(f.al, m2, alloc_end, excess_size)
             IN  IF excess_size > 0
                 THEN [al |-> back.al, mem |-> back.mem, ret |-> alloc_start,
                       overflow |-> f.overflow \/ end.overflow,
                       assert |-> back.assert]
                 ELSE [al |-> f.al, mem |-> m2, ret |-> alloc_start,
                       overflow |-> f.overflow \/ end.overflow,
                       assert |-> FALSE]

\* a dealloc that merges the freed region with the first free node when
\* that node starts where the region ends
ll_dealloc_merge(al, m, ptr, layout_size, align) ==
    LET size == rounded_size(layout_size)
        h    == al.head.next
    IN  IF h # None /\ h[1] = ptr + size
        THEN [al     |-> [al EXCEPT !.head.next = Some(ptr)],
              mem    |-> [x \in (DOMAIN m \ {h[1]}) \cup {ptr} |->
                             IF x = ptr
                             THEN [size |-> size + m[h[1]].size, next |-> m[h[1]].next]
                             ELSE m[x]],
              assert |-> FALSE]
        ELSE add_free_region(al, m, ptr, size)

ll_dealloc(al, m, ptr, layout_size, align) ==
    add_free_region(al, m, ptr, rounded_size(layout_size))

(***************************************************************************)
(* SpecLL: one LinkedListAllocator after init over one of the regions of   *)
(* LLHeaps; outstanding holds, per block handed out, the layout asked for, *)
(* and dealloc is called for these blocks with their layout                *)
(***************************************************************************)
\* the blocks that may be handed out at a time
MaxBlocks == 2

\* the nodes the free list may have when a block is freed into it
MaxNodes == 2

\* (heap_start, heap_size): a region of 64 bytes, a region of 88 bytes that
\* starts 8 bytes above a multiple of 64, and two regions of 24 bytes that end
\* 48 and 16 bytes below the top of the address space
LLHeaps ==
    {<<65536, 64>>, <<65536 + 8, 88>>, <<USIZE_WRAP - 72, 24>>,
     <<USIZE_WRAP - 40, 24>>}

\* (size, align) of the layouts requested
LLLayouts == {<<64, 8>>, <<16, 8>>, <<20, 4>>, <<16, 64>>}

InitLL ==
    /\ \E h \in LLHeaps :
         LET r == ll_init(LinkedListAllocator_new, NoMem, h[1], h[2])
         IN  /\ allocator = r.al
             /\ mem = r.mem
             /\ heap = [start |-> h[1], size |-> h[2]]
    /\ mapper = [pml4_address |-> 0]
    /\ last = NoCall
    /\ pre = [allocator |-> allocator, mem |-> mem]
    /\ outstanding = [a \in {} |-> <<0, 1>>]
    /\ panicked = FALSE
    /\ lock = FALSE
    /\ ctx = NoCtx

LLAlloc ==
    /\ ~panicked
    /\ Cardinality(DOMAIN outstanding) < MaxBlocks
    /\ \E l \in LLLayouts :
         LET r == ll_alloc(allocator, mem, l[1], l[2])
         IN  /\ ~r.assert
             /\ allocator' = r.al
             /\ mem' = r.mem
             /\ last' = [op |-> "alloc", size |-> l[1], align |-> l[2], ret |-> r.ret]
             /\ outstanding' =
                    IF r.ret = NULL THEN outstanding
                    ELSE [p \in DOMAIN outstanding \cup {r.ret} |->
                             IF p = r.ret THEN l ELSE outstanding[p]]
    /\ Snapshot
    /\ UNCHANGED <<mapper, heap, lock, ctx, panicked>>

LLDealloc ==
    /\ ~panicked
    /\ Cardinality(DOMAIN mem) < MaxNodes
    /\ \E ptr \in DOMAIN outstanding :
         LET l == outstanding[ptr]
             r == ll_dealloc(allocator, mem, ptr, l[1], l[2])
         IN  /\ ~r.assert
             /\ allocator' = r.al
             /\ mem' = r.mem
             /\ last' = [op |-> "dealloc", ptr |-> ptr, size |-> l[1], align |-> l[2]]
             /\ outstanding' = [p \in DOMAIN outstanding \ {ptr} |-> outstanding[p]]
    /\ Snapshot
    /\ UNCHANGED <<mapper, heap, lock, ctx, panicked>>

\* an addition of alloc overflows in a build with overflow checks, or an
\* assert of add_free_region fails: the call panics
LLPanic ==
    /\ ~panicked
    /\ \/ \E l \in LLLayouts :
            LET r == ll_alloc(allocator, mem, l[1], l[2])
            IN  /\ Cardinality(DOMAIN outstanding) < MaxBlocks
                /\ r.overflow \/ r.assert
                /\ last' = [op |-> "alloc", size |-> l[1], align |-> l[2], ret |-> NULL]
       \/ \E ptr \in DOMAIN outstanding :
            LET l == outstanding[ptr]
            IN  /\ Cardinality(DOMAIN mem) < MaxNodes
                /\ ll_dealloc(allocator, mem, ptr, l[1], l[2]).assert
                /\ last' = [op |-> "dealloc", ptr |-> ptr, size |-> l[1], align |-> l[2]]
    /\ panicked' = TRUE
    /\ Snapshot
    /\ UNCHANGED <<allocator, mapper, heap, lock, ctx, mem, outstanding>>

NextLL ==
    \/ LLAlloc
    \/ LLDealloc
    \/ LLPanic

SpecLL == InitLL /\ [][NextLL]_vars

(***************************************************************************)
(* Properties of the FrameAllocator, checked under Spec                    *)
(***************************************************************************)
IsAlloc == last.op \in {"allocate_frame", "allocate_frames"}

\* the indices below total_frames whose bit is set
SetBits(fa) == {i \in 0 .. fa.total_frames - 1 : is_set(fa.bitmap, i)}

FreeBits(fa) == (0 .. fa.total_frames - 1) \ SetBits(fa)

Lowest(S) == CHOOSE i \in S : \A j \in S : i <= j

FrameAddr(fa, k) == fa.start_address + k * FRAME_SIZE

\* the frame-aligned address below addr, and whether it lies in the region
FrameBase(addr) == addr - (addr % FRAME_SIZE)

InRegion(fa, addr) ==
    /\ FrameBase(addr) >= fa.start_address
    /\ FrameBase(addr) < fa.start_address + fa.total_frames * FRAME_SIZE

\* the indices count frames from the frame of addr name, empty when the
\* frame lies below the region
RunOf(fa, addr, count) ==
    IF FrameBase(addr) < fa.start_address THEN {}
    ELSE LET k == (FrameBase(addr) - fa.start_address) \div FRAME_SIZE
         IN  k .. k + count - 1

\* C1: after any sequence of allocate_frame, allocate_frames, deallocate_frame
\* and deallocate_frames calls the allocated_frames counter equals the number
\* of set bits of the bitmap, bitmap.count_allocated().
C1_CounterMatchesBitmap ==
    allocator.allocated_frames = count_allocated(allocator.bitmap)

\* a deallocate_frames call that freed two frames or more and left some allocated
C1_Witness ==
    /\ last.op = "deallocate_frames"
    /\ allocator.allocated_frames > 0
    /\ pre.allocator.allocated_frames >= allocator.allocated_frames + 2

\* C2: no frame is handed out twice: a frame returned by an allocation is not
\* returned by a later allocation unless it was passed to a deallocation in
\* between (every frame of the ledger was handed out once).
C2_NoFrameHandedOutTwice ==
    \A a \in DOMAIN outstanding : outstanding[a] <= 1

\* an allocation returned a frame below one that is still handed out: the
\* frame had been handed out before, freed, and is handed out again
C2_Witness ==
    /\ IsAlloc
    /\ last.ret # None
    /\ \E b \in DOMAIN outstanding : b >= last.ret[1] + last.count * FRAME_SIZE
    /\ \A i \in 0 .. last.count - 1 : outstanding[last.ret[1] + i * FRAME_SIZE] = 1

\* C3: every address returned by allocate_frame or allocate_frames is
\* start_address + k*FRAME_SIZE for some 0 <= k < total_frames, and the whole
\* run k .. k+count-1 of allocate_frames(count) lies below total_frames.
C3_ReturnedAddressInRegion ==
    (IsAlloc /\ last.ret # None) =>
        \E k \in 0 .. allocator.total_frames - 1 :
            /\ last.ret[1] = allocator.start_address + k * FRAME_SIZE
            /\ k + last.count - 1 < allocator.total_frames

\* a run of two frames or more that ends with the last frame of the region
C3_Witness ==
    /\ last.op = "allocate_frames"
    /\ last.ret # None
    /\ last.count >= 2
    /\ last.ret[1] + last.count * FRAME_SIZE
           = allocator.start_address + allocator.total_frames * FRAME_SIZE

\* C4: allocate_frame returns None exactly when no frame of the region is
\* free; then it does not panic and leaves the bitmap and the counter
\* unchanged; whenever a frame is free it returns Some.
C4_NoneExactlyWhenExhausted ==
    last.op = "allocate_frame" =>
        /\ last.ret = None <=> FreeBits(pre.allocator) = {}
        /\ last.ret = None => allocator = pre.allocator /\ ~panicked

\* allocate_frame found every frame allocated
C4_Witness ==
    /\ last.op = "allocate_frame"
    /\ last.ret = None
    /\ allocator.allocated_frames = allocator.total_frames

\* C5: allocate_frames(count) is all-or-nothing: it returns Some(addr), exactly
\* the count consecutive frames from addr change from free to allocated and the
\* counter grows by count, or it returns None and neither the bitmap nor the
\* counter changes; allocate_frames(0) returns None.
C5_AllocateFramesAllOrNothing ==
    last.op = "allocate_frames" =>
        /\ last.count = 0 => last.ret = None
        /\ last.ret = None => allocator = pre.allocator
        /\ last.ret # None =>
              LET run == RunOf(pre.allocator, last.ret[1], last.count)
              IN  /\ InRegion(pre.allocator, last.ret[1])
                  /\ last.ret[1] = FrameBase(last.ret[1])
                  /\ run \subseteq FreeBits(pre.allocator)
                  /\ SetBits(allocator) = SetBits(pre.allocator) \cup run
                  /\ allocator.allocated_frames
                         = pre.allocator.allocated_frames + last.count
                  /\ allocator.bitmap.size = pre.allocator.bitmap.size
                  /\ DOMAIN allocator.bitmap.data = DOMAIN pre.allocator.bitmap.data

\* a run of two frames or more was allocated above a frame that is in use
C5_Witness ==
    /\ last.op = "allocate_frames"
    /\ last.ret # None
    /\ last.count >= 2
    /\ last.ret[1] > allocator.start_address
    /\ FreeBits(pre.allocator) # {}
    /\ Lowest(FreeBits(pre.allocator)) \notin RunOf(allocator, last.ret[1], last.count)

\* C6: deallocate_frame(addr) is a silent no-op (bitmap and counter unchanged,
\* no panic) when the frame containing addr is already free or addr lies
\* outside the region, addresses below start_address included; otherwise it
\* clears exactly the bit of the frame containing addr and decrements the
\* counter by one.
C6_DeallocateFrameSilent ==
    last.op = "deallocate_frame" =>
        LET run == RunOf(pre.allocator, last.addr, 1) \cap SetBits(pre.allocator)
        IN  /\ ~panicked
            /\ run = {} => allocator = pre.allocator
            /\ run # {} =>
                  /\ SetBits(allocator) = SetBits(pre.allocator) \ run
                  /\ allocator.allocated_frames = pre.allocator.allocated_frames - 1

\* C7: allocate_frame returns the lowest-addressed free frame; so after
\* deallocate_frame(a) an allocate_frame() returns a again whenever a is then
\* the lowest free frame.
C7_LowestFreeFrameFirst ==
    /\ (last.op = "allocate_frame" /\ last.ret # None) =>
           last.ret[1] = FrameAddr(pre.allocator, Lowest(FreeBits(pre.allocator)))
    /\ (/\ last.op = "deallocate_frame"
        /\ ~panicked
        /\ InRegion(allocator, last.addr)
        /\ FrameBase(last.addr) = FrameAddr(allocator, Lowest(FreeBits(allocator)))) =>
           allocate_frame(allocator).ret = Some(FrameBase(last.addr))

\* deallocate_frame freed a frame that is not the first one, is now the lowest
\* free frame, and has an allocated frame above it
C7_Witness ==
    /\ last.op = "deallocate_frame"
    /\ InRegion(allocator, last.addr)
    /\ FrameBase(last.addr) > allocator.start_address
    /\ SetBits(pre.allocator) # SetBits(allocator)
    /\ FrameBase(last.addr) = FrameAddr(allocator, Lowest(FreeBits(allocator)))
    /\ \E i \in SetBits(allocator) : FrameAddr(allocator, i) > last.addr

\* C8: from any reachable state, allocate_frames(n) returning Some(a) followed
\* by deallocate_frames(a, n) restores the bitmap and the counter; and
\* deallocate_frames frees only the indices of its run that are in range and set.
C8_AllocateDeallocateRoundTrip ==
    /\ \A n \in 1 .. MaxCount :
           LET r == allocate_frames(allocator, n)
           IN  r.ret # None => deallocate_frames(r.fa, r.ret[1], n) = allocator
    /\ last.op = "deallocate_frames" =>
           LET run == RunOf(pre.allocator, last.addr, last.count)
                          \cap SetBits(pre.allocator)
           IN  /\ SetBits(allocator) = SetBits(pre.allocator) \ run
               /\ allocator.allocated_frames
                      = pre.allocator.allocated_frames
                        - (IF panicked THEN 0 ELSE Cardinality(run))
               /\ panicked => allocator = pre.allocator

\* deallocate_frames(a, n) has undone an allocate_frames(n) that returned a:
\* the state it started from is the one allocate_frames(n) makes of this one
C8_Witness ==
    /\ last.op = "deallocate_frames"
    /\ last.count >= 2
    /\ allocate_frames(allocator, last.count)
           = [fa |-> pre.allocator, ret |-> Some(last.addr)]

(***************************************************************************)
(* Properties of the PageMapper, checked under SpecPM                      *)
(***************************************************************************)
\* offsets inside a page: the first and the last, every offset with one bit
\* set and every offset with one bit clear
PageOffsets ==
    {0, PAGE_SIZE - 1}
        \cup {2 ^ i : i \in 0 .. 11}
        \cup {PAGE_SIZE - 1 - 2 ^ i : i \in 0 .. 11}

\* the leaf entry of the page of v, read through the tables as they are; None
\* when an intermediate table is absent
LeafEntry(mp, m, v) ==
    LET e4 == entry_at(m[mp.pml4_address], pml4_index(v))
    IN  IF ~is_present(e4) THEN None ELSE
    LET e3 == entry_at(m[physical_address(e4)], pdpt_index(v))
    IN  IF ~is_present(e3) THEN None ELSE
    LET e2 == entry_at(m[physical_address(e3)], pd_index(v))
    IN  IF ~is_present(e2) THEN None
        ELSE Some(entry_at(m[physical_address(e2)], pt_index(v)))

\* C9: for page-aligned v and p, after map_page(v, p, PRESENT, alloc) returns
\* Ok, translate(v + k) = Some(p + k) for every offset 0 <= k < PAGE_SIZE.
C9_MapTranslateRoundTrip ==
    (last.op = "map_page" /\ last.ret.ok /\ last.flags = PRESENT) =>
        \A k \in PageOffsets :
            translate(mapper, mem, last.virt + k) = Some(last.phys + k)

\* map_page(v, p, PRESENT) returned Ok after creating all three tables of v
C9_Witness ==
    /\ last.op = "map_page"
    /\ last.ret.ok
    /\ last.flags = PRESENT
    /\ translate(mapper, pre.mem, last.virt) = None
    /\ allocator.allocated_frames = pre.allocator.allocated_frames + 3

\* C10: unmap_page(v) of a page mapped to p returns Ok(p) and clears the leaf
\* entry; afterwards translate(v + k) = None for every offset k of the page
\* and a new map_page(v, p2, PRESENT, alloc) succeeds.
C10_UnmapReturnsFrameAndClears ==
    (/\ last.op = "unmap_page"
     /\ is_aligned(last.virt, PAGE_SIZE)
     /\ translate(mapper, pre.mem, last.virt) # None) =>
        /\ last.ret.ok
        /\ Some(last.ret.val) = translate(mapper, pre.mem, last.virt)
        /\ LeafEntry(mapper, mem, last.virt) = Some({})
        /\ \A k \in PageOffsets : translate(mapper, mem, last.virt + k) = None
        /\ \A p2 \in {20480, 24576} :
               LET again == map_page(mapper, mem, allocator, last.virt, p2, PRESENT)
               IN  /\ again.ret.ok
                   /\ translate(mapper, again.mem, last.virt) = Some(p2)

\* unmap_page took a mapped page away while another page of the same page
\* table stays mapped
C10_Witness ==
    /\ last.op = "unmap_page"
    /\ last.ret.ok
    /\ translate(mapper, pre.mem, last.virt) # None
    /\ \E w \in VirtPages :
           /\ w # last.virt
           /\ pd_index(w) = pd_index(last.virt)
           /\ pdpt_index(w) = pdpt_index(last.virt)
           /\ translate(mapper, mem, w) # None

\* the entry that decides whether the page of v is mapped: the leaf entry, or
\* the empty entry when an intermediate table is absent
Mapping(mp, m, v) ==
    IF LeafEntry(mp, m, v) = None THEN entry_new ELSE LeafEntry(mp, m, v)[1]

\* how many of the tables PDPT, PD and PT on the path of v are to be created
MissingTables(mp, m, v) ==
    LET e4 == entry_at(m[mp.pml4_address], pml4_index(v))
    IN  IF ~is_present(e4) THEN 3 ELSE
    LET e3 == entry_at(m[physical_address(e4)], pdpt_index(v))
    IN  IF ~is_present(e3) THEN 2 ELSE
    LET e2 == entry_at(m[physical_address(e3)], pd_index(v))
    IN  IF ~is_present(e2) THEN 1 ELSE 0

\* C11: map_page of page-aligned addresses on a virtual page whose leaf entry
\* is present fails with PageAlreadyMapped and does not overwrite: the leaf
\* entry (address and flags) and translate(v) are after the call what they
\* were before it, and so is every other entry and the allocator.
C11_AlreadyMappedNotOverwritten ==
    (/\ last.op = "map_page"
     /\ is_aligned(last.virt, PAGE_SIZE)
     /\ is_aligned(last.phys, PAGE_SIZE)
     /\ is_present(Mapping(mapper, pre.mem, last.virt))) =>
        /\ last.ret = Err("PageAlreadyMapped")
        /\ LeafEntry(mapper, mem, last.virt) = LeafEntry(mapper, pre.mem, last.virt)
        /\ \A k \in PageOffsets :
               translate(mapper, mem, last.virt + k)
                   = translate(mapper, pre.mem, last.virt + k)
        /\ mem = pre.mem
        /\ allocator = pre.allocator

\* map_page was asked to map a mapped page to another frame with other flags
C11_Witness ==
    /\ last.op = "map_page"
    /\ last.ret = Err("PageAlreadyMapped")
    /\ is_present(Mapping(mapper, pre.mem, last.virt))
    /\ physical_address(Mapping(mapper, pre.mem, last.virt)) # last.phys
    /\ Mapping(mapper, pre.mem, last.virt) \ ADDR_MASK # last.flags

\* C12: map_page returns InvalidAddress when the virtual or the physical
\* address is not a multiple of PAGE_SIZE (and for no other arguments), and
\* then walks no table: no frame is allocated and no entry of any table
\* changes.
C12_UnalignedRejectedBeforeWalk ==
    last.op = "map_page" =>
        /\ (last.virt % PAGE_SIZE # 0 \/ last.phys % PAGE_SIZE # 0)
               <=> last.ret = Err("InvalidAddress")
        /\ last.ret = Err("InvalidAddress") =>
               /\ mem = pre.mem
               /\ allocator = pre.allocator

\* map_page rejected a misaligned physical address for a page none of whose
\* tables exists, while the allocator had the frames to create them
C12_Witness ==
    /\ last.op = "map_page"
    /\ last.ret = Err("InvalidAddress")
    /\ last.virt % PAGE_SIZE = 0
    /\ MissingTables(mapper, pre.mem, last.virt) = 3
    /\ free_frames(pre.allocator) >= 3

\* C13: when map_page of page-aligned addresses has to create more of the
\* tables PDPT, PD and PT for v than the frame allocator has free frames, it
\* returns OutOfMemory (not TableCreationFailed, and without a panic) and the
\* leaf entry for v is not installed; it returns OutOfMemory in no other case.
C13_ExhaustionIsOutOfMemory ==
    (/\ last.op = "map_page"
     /\ is_aligned(last.virt, PAGE_SIZE)
     /\ is_aligned(last.phys, PAGE_SIZE)) =>
        LET missing == MissingTables(mapper, pre.mem, last.virt)
        IN  /\ free_frames(pre.allocator) < missing
                   <=> last.ret = Err("OutOfMemory")
            /\ last.ret # Err("TableCreationFailed")
            /\ last.ret = Err("OutOfMemory") =>
                   /\ ~panicked
                   /\ LeafEntry(mapper, mem, last.virt) = None
                   /\ \A k \in PageOffsets :
                          translate(mapper, mem, last.virt + k) = None

\* map_page created a table and then found the allocator exhausted
C13_Witness ==
    /\ last.op = "map_page"
    /\ last.ret = Err("OutOfMemory")
    /\ allocator.allocated_frames > pre.allocator.allocated_frames
    /\ free_frames(allocator) = 0

\* C14: unmap_page(v) returns InvalidAddress and changes no page-table entry
\* when v is not page-aligned, when one of the three intermediate tables on
\* the path of v is absent, and when the leaf entry is not present: a page
\* never mapped and a missing table give the same error value.
C14_UnmapInvalidAddress ==
    (/\ last.op = "unmap_page"
     /\ \/ last.virt % PAGE_SIZE # 0
        \/ MissingTables(mapper, pre.mem, last.virt) > 0
        \/ ~is_present(Mapping(mapper, pre.mem, last.virt))) =>
        /\ last.ret = Err("InvalidAddress")
        /\ mem = pre.mem

\* unmap_page was given an address inside a mapped page and left it mapped
C14_Witness ==
    /\ last.op = "unmap_page"
    /\ last.ret = Err("InvalidAddress")
    /\ last.virt % PAGE_SIZE # 0
    /\ translate(mapper, mem, last.virt) # None

\* the pages of [align_down(start), align_up(start + size)), in ascending order
RangePages(start, size) ==
    LET first == align_down(start, PAGE_SIZE)
        n     == (align_up(start + size, PAGE_SIZE) - first) \div PAGE_SIZE
    IN  [i \in 1 .. n |-> first + (i - 1) * PAGE_SIZE]

\* the page is mapped to itself with the flags, by a call that found it unmapped
IdentityMapped(a, flags) ==
    /\ ~is_present(Mapping(mapper, pre.mem, a))
    /\ Mapping(mapper, mem, a) = set_address(a, flags)
    /\ PRESENT \subseteq flags => translate(mapper, mem, a) = Some(a)

\* C15: identity_map_range(start, size, flags, alloc) maps the pages of
\* [align_down(start), align_up(start + size)) to themselves in ascending
\* order; at the first page whose map_page fails it returns that error, the
\* pages before it stay mapped to themselves, the failing page and the pages
\* after it are not mapped by the call; when it returns Ok every page of the
\* range is mapped to itself.
C15_IdentityMapNoRollback ==
    last.op = "identity_map_range" =>
        LET pages == RangePages(last.start, last.size)
            n     == Len(pages)
        IN  IF last.ret.ok
            THEN \A i \in 1 .. n : IdentityMapped(pages[i], last.flags)
            ELSE \E k \in 1 .. n :
                   /\ \A i \in 1 .. k - 1 : IdentityMapped(pages[i], last.flags)
                   /\ \/ /\ last.ret = Err("PageAlreadyMapped")
                         /\ is_present(Mapping(mapper, pre.mem, pages[k]))
                      \/ /\ last.ret = Err("OutOfMemory")
                         /\ free_frames(allocator) = 0
                         /\ LeafEntry(mapper, mem, pages[k]) = None
                   /\ \A j \in k .. n :
                          Mapping(mapper, mem, pages[j])
                              = Mapping(mapper, pre.mem, pages[j])

\* identity_map_range mapped its first page and failed at the second, whose
\* page was mapped already
C15_Witness ==
    /\ last.op = "identity_map_range"
    /\ last.ret = Err("PageAlreadyMapped")
    /\ Len(RangePages(last.start, last.size)) = 2
    /\ IdentityMapped(RangePages(last.start, last.size)[1], last.flags)

(***************************************************************************)
(* Properties of the BumpAllocator, checked under SpecBump                 *)
(***************************************************************************)
\* the least multiple of n that is not below x, as a number
MathAlignUp(x, n) == ((x + n - 1) \div n) * n

\* the powers of two up to PAGE_SIZE
Aligns == {2 ^ i : i \in 0 .. 12}

\* C16: BumpAllocator::alloc(layout) succeeds exactly when the aligned start
\* align_up(next, align) plus size does not overflow and does not exceed
\* heap_end; then it returns the aligned start, a multiple of align inside
\* [heap_start, heap_end], sets next to the end of the block and adds one to
\* the counter; otherwise it returns the null pointer and leaves next and the
\* counter unchanged; it never panics.
C16_AllocSucceedsExactlyWhenFits ==
    last.op = "alloc" =>
        LET b     == pre.allocator
            start == MathAlignUp(b.next, last.align)
            fits  == start + last.size < USIZE_WRAP /\ start + last.size <= b.heap_end
        IN  /\ ~panicked
            /\ fits =>
                   /\ last.ret = start
                   /\ last.ret # NULL
                   /\ last.ret % last.align = 0
                   /\ b.heap_start <= last.ret /\ last.ret <= b.heap_end
                   /\ allocator = [b EXCEPT !.next = start + last.size,
                                            !.allocations = @ + 1]
            /\ ~fits =>
                   /\ last.ret = NULL
                   /\ allocator = b

\* the first alloc(64, 1) after init(0x10000, heap_size) succeeds and consumes
\* the whole region, and no second alloc of min_size bytes or more succeeds
ScenarioD(heap_size, min_size) ==
    (/\ last.op = "alloc"
     /\ last.size = 64
     /\ last.align = 1
     /\ pre.allocator = bump_init(BumpAllocator_new, 65536, heap_size)) =>
        /\ last.ret = 65536
        /\ allocator.next = allocator.heap_end
        /\ bump_stats(allocator).free = 0
        /\ \A size \in min_size .. PAGE_SIZE, align \in Aligns :
               /\ bump_alloc(allocator, size, align).ret = NULL
               /\ bump_alloc(allocator, size, align).b = allocator

C18_DeallocNoOpCursorMonotonic ==
    /\ last.op = "dealloc" =>
           /\ allocator = pre.allocator
           /\ bump_stats(allocator) = bump_stats(pre.allocator)
    /\ last.op \in {"alloc", "dealloc"} =>
           /\ allocator.next >= pre.allocator.next
           /\ allocator.allocations >= pre.allocator.allocations

\* C19: BumpAllocator::reset sets next to heap_start and the counter to 0 and
\* keeps heap_start and heap_end; afterwards stats().used is 0, the allocator
\* equals one freshly initialised over the region, and an alloc that succeeds
\* next returns heap_start aligned up to the alignment asked for.
C19_ResetAsFresh ==
    last.op = "reset" =>
        /\ allocator.next = allocator.heap_start
        /\ allocation_count(allocator) = 0
        /\ allocator.heap_start = pre.allocator.heap_start
        /\ allocator.heap_end = pre.allocator.heap_end
        /\ bump_stats(allocator).used = 0
        /\ allocator = bump_init(BumpAllocator_new, allocator.heap_start,
                                 allocator.heap_end - allocator.heap_start)
        /\ \A size \in {0, 1, 8, 16, 48, 64, PAGE_SIZE}, align \in Aligns :
               LET r == bump_alloc(allocator, size, align)
               IN  r.ret # NULL =>
                       r.ret = MathAlignUp(allocator.heap_start, align)

\* reset of an allocator that had handed out two blocks or more
C19_Witness ==
    /\ last.op = "reset"
    /\ pre.allocator.allocations >= 2
    /\ pre.allocator.next > pre.allocator.heap_start + 16
    /\ allocator.next = allocator.heap_start

(***************************************************************************)
(* Properties of the LinkedListAllocator, checked under SpecLL             *)
(***************************************************************************)
\* C20: free-list reuse: from any reachable state, after alloc(layout) has
\* returned a non-null p and dealloc(p, layout) has been called, the next
\* alloc with the same layout returns exactly p.
C20_FreedBlockReused ==
    \A l \in LLLayouts :
        LET a1 == ll_alloc(allocator, mem, l[1], l[2])
            d  == ll_dealloc(a1.al, a1.mem, a1.ret, l[1], l[2])
            a2 == ll_alloc(d.al, d.mem, l[1], l[2])
        IN  (~panicked /\ ~a1.overflow /\ ~a1.assert /\ a1.ret # NULL) =>
                /\ ~d.assert
                /\ ~a2.overflow
                /\ ~a2.assert
                /\ a2.ret = a1.ret

\* the addresses of the free-list nodes in list order, from the node nxt
\* points to
RECURSIVE ListFrom(_, _)
ListFrom(m, nxt) ==
    IF nxt = None THEN <<>>
    ELSE <<nxt[1]>> \o ListFrom(m, m[nxt[1]].next)

FreeList(al, m) == ListFrom(m, al.head.next)

\* the free list with the node n taken out
Without(L, n) == SelectSeq(L, LAMBDA a : a # n)

\* an alloc that returned to its caller
AllocReturned == last.op = "alloc" /\ ~panicked

AdjacentPair(m, a, b, size) ==
    /\ b = a + m[a].size
    /\ size > m[a].size
    /\ size > m[b].size
    /\ size <= m[a].size + m[b].size

\* C22: dealloc always returns and puts the freed region in front of the free
\* list as one new node of the rounded size, leaving every other node as it
\* was (one node more, no node grown); and an alloc larger than each of two
\* address-adjacent free nodes, but not larger than both together, is not
\* served from their memory.
C22_DeallocNeverMerges ==
    /\ last.op = "dealloc" =>
           /\ ~panicked
           /\ FreeList(allocator, mem) =
                  <<last.ptr>> \o FreeList(pre.allocator, pre.mem)
           /\ mem[last.ptr].size = rounded_size(last.size)
           /\ \A a \in DOMAIN pre.mem : mem[a].size = pre.mem[a].size
    /\ AllocReturned =>
           \A a, b \in DOMAIN pre.mem :
               AdjacentPair(pre.mem, a, b, rounded_size(last.size)) =>
                   ~(last.ret >= a /\ last.ret < b + pre.mem[b].size)

\* an alloc found two address-adjacent free nodes, left there by two
\* deallocs, that together would have held the block, and returned null
C22_Witness ==
    /\ AllocReturned
    /\ last.ret = NULL
    /\ \E a, b \in DOMAIN pre.mem :
           /\ AdjacentPair(pre.mem, a, b, rounded_size(last.size))
           /\ pre.mem[a].next = Some(b) \/ pre.mem[b].next = Some(a)

\* the bytes [a, a + n) and [b, b + k) have none in common
Apart(a, n, b, k) == a + n <= b \/ b + k <= a

\* the bytes the allocator set aside for the block handed out at p
BlockSize(p) == rounded_size(outstanding[p][1])

\* C23: with every dealloc passing the pointer and layout of a block still
\* handed out, every free-list node lies inside [heap_start, heap_end), the
\* free nodes are pairwise disjoint, no free node overlaps a block handed
\* out, and no two blocks handed out overlap.
C23_FreeListInvariant ==
    LET L     == FreeList(allocator, mem)
        nodes == {L[i] : i \in 1 .. Len(L)}
    IN  /\ \A a \in nodes :
               /\ heap.start <= a
               /\ a + mem[a].size <= heap.start + heap.size
        /\ \A i, j \in 1 .. Len(L) :
               i # j => Apart(L[i], mem[L[i]].size, L[j], mem[L[j]].size)
        /\ \A a \in nodes : \A p \in DOMAIN outstanding :
               Apart(a, mem[a].size, p, BlockSize(p))
        /\ \A p, q \in DOMAIN outstanding :
               p # q => Apart(p, BlockSize(p), q, BlockSize(q))

(***************************************************************************)
(* Properties of the LockedAllocator, checked under SpecLocked             *)
(***************************************************************************)
\* the contexts inside the wrapped allocator: they hold the guard
Inside == {c \in Contexts : ctx[c].pc \in {"held", "unlock"}}

\* at most one request is inside the wrapped allocator, and the lock is held
\* exactly while one is
MutualExclusion ==
    /\ Cardinality(Inside) <= 1
    /\ lock <=> Inside # {}

\* C24: under any interleaving of the requests of the contexts at most one
\* request is inside the wrapped allocator at a time, the lock being held
\* from its acquisition to the return, and the blocks that successful allocs
\* returned never overlap.
C24_SerializedDisjointBlocks ==
    /\ MutualExclusion
    /\ \A b1, b2 \in outstanding :
           b1 # b2 => Apart(b1[1], b1[2], b2[1], b2[2])

\* the interrupt handler asks for the lock while the request it interrupted
\* holds it
Reentrant == ctx["irq"].pc = "lock" /\ ctx["main"].pc \in {"held", "unlock"}

\* the request of c has returned and c holds no lock
Returned(c) == ctx[c].pc = "idle" /\ c \notin Inside

\* C25: once a context requests the lock on top of a request that holds it
\* and waits for the new one, the new request spins forever and neither
\* completes; in a run without such reentrancy every request that starts
\* eventually returns and leaves the lock free.
C25_OnlyReentrancyBlocks ==
    /\ [](Reentrant => []Reentrant)
    /\ ([]~Reentrant) =>
           \A c \in Contexts : (ctx[c].pc # "idle") ~> Returned(c)

(***************************************************************************)
(* Properties of the Bitmap, checked under SpecBitmap                      *)
(***************************************************************************)
\* the bit positions the buffer of bm has
BufferBits(bm) == 0 .. 8 * Cardinality(DOMAIN bm.data) - 1

\* the bit at position b of the buffer, whatever the size of the bitmap
RawBit(bm, b) == BitOf(bm.data[b \div 8], b % 8)

\* the indices below size that are clear
ClearBits(bm) == {i \in 0 .. bm.size - 1 : ~is_set(bm, i)}

\* C26: for every i < size, is_set(i) is true after set(i) and false after
\* clear(i); both leave every other bit as it was; a second set of a set bit
\* and a second clear of a clear bit change nothing.
C26_SetClearSemantics ==
    (last.op \in {"set", "clear"} /\ last.index < allocator.size) =>
        /\ is_set(allocator, last.index) <=> last.op = "set"
        /\ \A b \in BufferBits(allocator) \ {last.index} :
               RawBit(allocator, b) <=> RawBit(pre.allocator, b)
        /\ allocator.size = pre.allocator.size
        /\ last.op = "set" => set(allocator, last.index) = allocator
        /\ last.op = "clear" => clear(allocator, last.index) = allocator

\* a set bit was cleared while another bit of its byte stayed set
C26_Witness ==
    /\ last.op = "clear"
    /\ last.index < allocator.size
    /\ is_set(pre.allocator, last.index)
    /\ \E j \in 0 .. allocator.size - 1 :
           /\ j # last.index
           /\ j \div 8 = last.index \div 8
           /\ is_set(allocator, j)

\* C27: for every i >= size, set(i) and clear(i) change no bit and is_set(i)
\* is false; so no index >= size is ever reported as set, no bit behind the
\* bitmap is ever set in the buffer, and count_free() + count_allocated()
\* is size.
C27_OutOfRangeIgnored ==
    /\ (last.op \in {"set", "clear"} /\ last.index >= allocator.size) =>
           allocator = pre.allocator
    /\ \A i \in BitmapIndices(allocator) \cup BufferBits(allocator) :
           i >= allocator.size =>
               /\ ~is_set(allocator, i)
               /\ i \in BufferBits(allocator) => ~RawBit(allocator, i)
    /\ count_free(allocator) + count_allocated(allocator) = allocator.size
    /\ count_allocated(allocator) = Cardinality((0 .. allocator.size - 1) \ ClearBits(allocator))

\* set was called with an index behind the bitmap for which the buffer has a
\* bit, on a bitmap that has bits set
C27_Witness ==
    /\ last.op = "set"
    /\ last.index >= allocator.size
    /\ last.index \in BufferBits(allocator)
    /\ count_allocated(allocator) > 0

\* the bitmap of the scenarios: 128 bits over 16 bytes, indices 0 to 9 set
ScenarioA == set_range(Bitmap_new([i \in 0 .. 15 |-> 0], 128), 0, 10)

\* C28: find_first_clear() is None exactly when every index below size is
\* set, and the smallest clear index below size otherwise, whatever the size
\* and the length of the buffer; in the 128-bit bitmap with indices 0 to 9
\* set it is 10.
C28_FirstClearIsLowest ==
    /\ find_first_clear(allocator) =
           IF ClearBits(allocator) = {} THEN None
           ELSE Some(Lowest(ClearBits(allocator)))
    /\ find_first_clear(ScenarioA) = Some(10)

\* the scan skipped a full first byte and found nothing behind it, in a
\* buffer of two bytes
C28_Witness ==
    /\ allocator.data[0] = 255
    /\ Cardinality(DOMAIN allocator.data) = 2
    /\ find_first_clear(allocator) = None

\* the first indices of the runs of count clear bits below size
RunStarts(bm, count) ==
    {s \in 0 .. bm.size - count : \A k \in s .. s + count - 1 : ~is_set(bm, k)}

\* the bitmap of the scenarios with indices 15 to 19 set as well
ScenarioB == set_range(ScenarioA, 15, 20)

\* C29: find_consecutive_clear(count) is the start of the lowest run of at
\* least count clear bits that lies below size, None if there is none and
\* None for count 0; in the 128-bit bitmap with indices 0 to 9 and 15 to 19
\* set it is Some(10) for count 4 and Some(20) for count 6.
C29_ConsecutiveClearIsLowestRun ==
    /\ \A count \in 0 .. allocator.size + 1 :
           find_consecutive_clear(allocator, count) =
               IF count = 0 \/ RunStarts(allocator, count) = {} THEN None
               ELSE Some(Lowest(RunStarts(allocator, count)))
    /\ find_consecutive_clear(ScenarioB, 4) = Some(10)
    /\ find_consecutive_clear(ScenarioB, 6) = Some(20)

\* a run of clear bits too short for three lies in front of the run found
C29_Witness ==
    /\ ~is_set(allocator, 0)
    /\ find_consecutive_clear(allocator, 3) # None
    /\ find_consecutive_clear(allocator, 3)[1] > 1

(***************************************************************************)
(* memory/mod.rs: the address types on the machine word                    *)
(***************************************************************************)
\* PhysicalAddress::new(addr)
PhysicalAddress_new(addr) == [type |-> "PhysicalAddress", addr |-> addr]

\* VirtualAddress::new(addr)
VirtualAddress_new(addr) == [type |-> "VirtualAddress", addr |-> addr]

\* align - 1 never underflows for a power of two, and !(align - 1) is
\* USIZE_WRAP - align on the bits of usize
PhysicalAddress_align_down(addr, align) == BitAnd(addr, USIZE_WRAP - align)

\* (self.0 + align - 1) & !(align - 1) on usize: the sum self.0 + align is
\* taken first and overflows when it reaches USIZE_WRAP. A build with
\* overflow checks panics there, a build without them goes on with val.
PhysicalAddress_align_up(addr, align) ==
    LET sum   == (addr + align) % USIZE_WRAP
        minus == (sum + USIZE_WRAP - 1) % USIZE_WRAP
    IN  [overflow |-> addr + align >= USIZE_WRAP,
         val      |-> BitAnd(minus, USIZE_WRAP - align)]

VirtualAddress_align_down(addr, align) == BitAnd(addr, USIZE_WRAP - align)

VirtualAddress_align_up(addr, align) ==
    LET sum   == (addr + align) % USIZE_WRAP
        minus == (sum + USIZE_WRAP - 1) % USIZE_WRAP
    IN  [overflow |-> addr + align >= USIZE_WRAP,
         val      |-> BitAnd(minus, USIZE_WRAP - align)]

\* the method of the type of the address a
AlignDownOf(a, align) ==
    IF a.type = "PhysicalAddress"
    THEN PhysicalAddress_new(PhysicalAddress_align_down(a.addr, align))
    ELSE VirtualAddress_new(VirtualAddress_align_down(a.addr, align))

AlignUpOf(a, align) ==
    IF a.type = "PhysicalAddress"
    THEN PhysicalAddress_align_up(a.addr, align)
    ELSE VirtualAddress_align_up(a.addr, align)

\* the words addresses are made from: low ones, and ones within an alignment
\* of the largest word
AddrWords ==
    {0, 1, 7, 8, 4095, 4096, 4660,
     USIZE_WRAP - 8192, USIZE_WRAP - 4097, USIZE_WRAP - 4096,
     USIZE_WRAP - 4095, USIZE_WRAP - 9, USIZE_WRAP - 8, USIZE_WRAP - 7,
     USIZE_WRAP - 2, USIZE_WRAP - 1}

\* the powers of two addresses are aligned to
AddrAligns == {1, 8, 4096, USIZE_WRAP \div 2}

InitAddr ==
    /\ \E x \in AddrWords :
         allocator \in {PhysicalAddress_new(x), VirtualAddress_new(x)}
    /\ mapper = [pml4_address |-> 0]
    /\ mem = NoMem
    /\ last = NoCall
    /\ pre = [allocator |-> allocator, mem |-> mem]
    /\ outstanding = [a \in {} |-> 0]
    /\ panicked = FALSE
    /\ heap = NoHeap
    /\ lock = FALSE
    /\ ctx = NoCtx

AddrNew ==
    /\ ~panicked
    /\ \E x \in AddrWords :
         allocator' \in {PhysicalAddress_new(x), VirtualAddress_new(x)}
    /\ last' = [op |-> "new", align |-> 1]
    /\ Snapshot
    /\ UNCHANGED <<mapper, heap, lock, ctx, mem, outstanding, panicked>>

AddrAlignDown ==
    /\ ~panicked
    /\ \E align \in AddrAligns :
         /\ allocator' = AlignDownOf(allocator, align)
         /\ last' = [op |-> "align_down", align |-> align]
    /\ Snapshot
    /\ UNCHANGED <<mapper, heap, lock, ctx, mem, outstanding, panicked>>

\* the sum does not overflow, or it wraps (no overflow checks)
AddrAlignUp ==
    /\ ~panicked
    /\ \E align \in AddrAligns :
         /\ allocator' = [allocator EXCEPT !.addr = AlignUpOf(allocator, align).val]
         /\ last' = [op |-> "align_up", align |-> align]
    /\ Snapshot
    /\ UNCHANGED <<mapper, heap, lock, ctx, mem, outstanding, panicked>>

\* the sum overflows in a build with overflow checks: the call panics
AddrAlignUpPanic ==
    /\ ~panicked
    /\ \E align \in AddrAligns :
         /\ AlignUpOf(allocator, align).overflow
         /\ last' = [op |-> "align_up", align |-> align]
    /\ panicked' = TRUE
    /\ Snapshot
    /\ UNCHANGED <<allocator, mapper, heap, lock, ctx, mem, outstanding>>

NextAddr ==
    \/ AddrNew
    \/ AddrAlignDown
    \/ AddrAlignUp
    \/ AddrAlignUpPanic

SpecAddr == InitAddr /\ [][NextAddr]_vars

(***************************************************************************)
(* Properties of the address types, checked under SpecAddr                 *)
(***************************************************************************)
\* C30: for every word x and every power of two n, align_up(x, n) returns a
\* value that align_down(_, n) leaves as it is and that is not below x, and
\* align_down(x, n) is not above x; this includes the x within n - 1 of the
\* largest word.
C30_AlignmentRoundTrip ==
    /\ last.op = "align_up" =>
           /\ ~panicked
           /\ AlignDownOf(allocator, last.align) = allocator
           /\ AlignDownOf(pre.allocator, last.align).addr <= pre.allocator.addr
           /\ pre.allocator.addr <= allocator.addr
    /\ last.op = "align_down" =>
           /\ allocator.addr <= pre.allocator.addr
           /\ AlignDownOf(allocator, last.align) = allocator

(***************************************************************************)
(* Properties of the statistics of the FrameAllocator, under SpecStats     *)
(***************************************************************************)
StatOps == {"free_frames", "allocated_frames", "total_frames", "usage_percent"}

\* C31: in every reachable state free_frames() + allocated_frames() is
\* total_frames() and neither is below zero (they are the numbers of clear
\* and of set bits); usage_percent() lies in 0 .. 100, is the floor of
\* allocated_frames * 100 / total_frames, and is 0 when total_frames is 0; a
\* query returns these values and changes no state.
C31_StatsConsistent ==
    LET free  == free_frames(allocator)
        used  == allocated_frames(allocator)
        total == total_frames(allocator)
        pct   == usage_percent(allocator)
    IN  /\ free >= 0 /\ used >= 0
        /\ free + used = total
        /\ free = Cardinality(FreeBits(allocator))
        /\ used = Cardinality(SetBits(allocator))
        /\ pct \in 0 .. 100
        /\ total = 0 => pct = 0
        /\ total > 0 => /\ pct * total <= used * 100
                        /\ used * 100 < (pct + 1) * total
        /\ last.op \in StatOps =>
               /\ allocator = pre.allocator
               /\ last.ret = Some(CASE last.op = "free_frames" -> free
                                    [] last.op = "allocated_frames" -> used
                                    [] last.op = "total_frames" -> total
                                    [] last.op = "usage_percent" -> pct)

\* usage_percent was asked of an allocator with frames allocated and frames
\* free whose percentage is not a whole number
C31_Witness ==
    /\ last.op = "usage_percent"
    /\ total_frames(allocator) > 0
    /\ (allocated_frames(allocator) * 100) % total_frames(allocator) # 0
    /\ free_frames(allocator) > 0

(***************************************************************************)
(* Properties of the PageTableEntry, checked under SpecEntry               *)
(***************************************************************************)
\* the bits of the PageTableFlags
FlagBits ==
    PRESENT \cup WRITABLE \cup USER_ACCESSIBLE \cup WRITE_THROUGH \cup NO_CACHE
        \cup ACCESSED \cup DIRTY \cup HUGE_PAGE \cup GLOBAL \cup NO_EXECUTE

\* C32: set_address(addr, flags) replaces the whole entry: afterwards
\* physical_address() is addr with every bit outside 12-51 reset (so it is
\* 4 KiB aligned), each flag accessor reports the bit of the flags passed,
\* and a flag set before the call is set afterwards only if it is among the
\* flags passed; clear() leaves the entry not present with address 0.
C32_SetAddressReplacesEntry ==
    /\ last.op = "set_address" =>
           /\ physical_address_u64(allocator) = last.addr \ ((0 .. 11) \cup (52 .. 63))
           /\ physical_address_u64(allocator) \cap (0 .. 11) = {}
           /\ is_present(allocator) <=> 0 \in last.flags
           /\ is_writable(allocator) <=> 1 \in last.flags
           /\ is_user_accessible(allocator) <=> 2 \in last.flags
           /\ is_huge_page(allocator) <=> 7 \in last.flags
           /\ is_no_execute(allocator) <=> 63 \in last.flags
           /\ flags_of(allocator) = last.flags \cap (0 .. 11)
           /\ \A b \in FlagBits \cap pre.allocator :
                  b \in allocator => b \in last.flags
    /\ last.op = "clear" =>
           /\ ~is_present(allocator)
           /\ physical_address(allocator) = 0
           /\ allocator = entry_new

\* an entry with an address and with flags was overwritten with an address
\* that has bits outside the field and with flags that leave out one of the
\* flags it had
C32_Witness ==
    /\ last.op = "set_address"
    /\ physical_address_u64(pre.allocator) # {}
    /\ (FlagBits \cap pre.allocator) \ last.flags # {}
    /\ last.addr \cap (0 .. 11) # {}
    /\ last.addr \cap (52 .. 63) # {}
    /\ last.flags # {}

(***************************************************************************)
(* Properties of the table tree of the PageMapper, checked under SpecPM    *)
(***************************************************************************)
\* the index of v in the table of a level: 1 is the PML4, 2 a PDPT, 3 a PD,
\* 4 a PT
IndexAt(v, level) ==
    CASE level = 1 -> pml4_index(v)
      [] level = 2 -> pdpt_index(v)
      [] level = 3 -> pd_index(v)
      [] level = 4 -> pt_index(v)

\* the address of the table of a level on the path of v, None when a table
\* above it is absent
RECURSIVE TableAt(_, _, _, _)
TableAt(mp, m, v, level) ==
    IF level = 1 THEN Some(mp.pml4_address)
    ELSE LET up == TableAt(mp, m, v, level - 1)
         IN  IF up = None THEN None
             ELSE LET e == entry_at(m[up[1]], IndexAt(v, level - 1))
                  IN  IF is_present(e) THEN Some(physical_address(e)) ELSE None

\* the entry for v in the table of a level, the empty entry when the table
\* is absent
PathEntry(mp, m, v, level) ==
    IF TableAt(mp, m, v, level) = None THEN entry_new
    ELSE entry_at(m[TableAt(mp, m, v, level)[1]], IndexAt(v, level))

\* the flag bits of an entry
EntryFlagsOf(entry) == entry \ ADDR_MASK

\* map_page walked the tables: its addresses were aligned
Walked == last.op = "map_page" /\ last.ret # Err("InvalidAddress")

\* C33: an intermediate table that map_page creates is all not-present (but
\* for the entry the same call writes into it) and its parent entry holds
\* exactly PRESENT | WRITABLE whatever flags the caller passed; intermediate
\* entries that were present are used as they are; the caller's flags are in
\* the leaf entry only, and no other entry changes.
C33_IntermediateTablesPresentWritable ==
    Walked =>
        /\ \A level \in 1 .. 3 :
               LET before == PathEntry(mapper, pre.mem, last.virt, level)
                   after  == PathEntry(mapper, mem, last.virt, level)
                   frame  == physical_address(after)
               IN  IF is_present(before)
                   THEN after = before
                   ELSE is_present(after) =>
                          /\ EntryFlagsOf(after) = PRESENT \cup WRITABLE
                          /\ after = set_address(frame, PRESENT \cup WRITABLE)
                          /\ frame \in Taken(pre.allocator, allocator)
                          /\ DOMAIN mem[frame] \subseteq {IndexAt(last.virt, level + 1)}
                          /\ ~last.ret.ok /\ ~is_present(PathEntry(mapper, mem, last.virt, level + 1))
                                 => mem[frame] = EmptyTable
        /\ last.ret.ok =>
               PathEntry(mapper, mem, last.virt, 4) = set_address(last.phys, last.flags)
        /\ \A a \in DOMAIN pre.mem \ Taken(pre.allocator, allocator) :
               \A i \in DOMAIN mem[a] \cup DOMAIN pre.mem[a] :
                   entry_at(mem[a], i) # entry_at(pre.mem[a], i) =>
                       \E level \in 1 .. 4 :
                           /\ TableAt(mapper, mem, last.virt, level) = Some(a)
                           /\ i = IndexAt(last.virt, level)

\* map_page used the PDPT that was there, created a page directory and a
\* page table, and installed a leaf with flags other than PRESENT | WRITABLE
C33_Witness ==
    /\ last.op = "map_page"
    /\ last.ret.ok
    /\ MissingTables(mapper, pre.mem, last.virt) = 2
    /\ last.flags = PRESENT \cup USER_ACCESSIBLE \cup NO_EXECUTE

\* the tables of a level that the PML4 of the mapper leads to
RECURSIVE TablesAt(_, _, _)
TablesAt(mp, m, level) ==
    IF level = 1 THEN {mp.pml4_address}
    ELSE UNION {{physical_address(m[t][i]) :
                    i \in {j \in DOMAIN m[t] : is_present(m[t][j])}} :
                    t \in TablesAt(mp, m, level - 1) \cap DOMAIN m}

\* the present intermediate entries: (level, table, index)
ParentEntries(mp, m) ==
    UNION {UNION {{<<level, t, i>> : i \in {j \in DOMAIN m[t] : is_present(m[t][j])}} :
                      t \in TablesAt(mp, m, level) \cap DOMAIN m} :
               level \in 1 .. 3}

\* the frame an intermediate entry refers to
Child(m, ref) == physical_address(m[ref[2]][ref[3]])

\* the frames that hold the lower-level tables
TableFrames(mp, m) == {Child(m, ref) : ref \in ParentEntries(mp, m)}

MapperOps == {"map_page", "unmap_page", "identity_map_range"}

\* C34: after any sequence of map_page, unmap_page and identity_map_range
\* calls, with other users taking frames from the same allocator, no two
\* present intermediate entries refer to the same frame, a lower-level table
\* is not the PML4, every frame a mapper call took from the allocator holds a
\* table that one present intermediate entry refers to, and every table
\* frame is a frame of the allocator that is marked allocated.
C34_TableTree ==
    /\ \A r1, r2 \in ParentEntries(mapper, mem) :
           Child(mem, r1) = Child(mem, r2) => r1 = r2
    /\ \A f \in TableFrames(mapper, mem) :
           /\ f # mapper.pml4_address
           /\ InRegion(allocator, f)
           /\ is_allocated(allocator, f)
    /\ last.op \in MapperOps =>
           /\ Taken(pre.allocator, allocator) \subseteq TableFrames(mapper, mem)
           /\ TableFrames(mapper, pre.mem) \subseteq TableFrames(mapper, mem)
           /\ Cardinality(TableFrames(mapper, mem))
                  = Cardinality(TableFrames(mapper, pre.mem))
                        + Cardinality(Taken(pre.allocator, allocator))

\* unmap_page returned Ok in a tree of five lower-level tables
C34_Witness ==
    /\ last.op = "unmap_page"
    /\ last.ret.ok
    /\ Cardinality(ParentEntries(mapper, mem)) = 5

\* C35: every map_page that returns Ok leaves v mapped, whatever the flags
\* (flags without PRESENT included): translate(v) is Some(p), and a further
\* map_page of v fails with PageAlreadyMapped, while unmap_page(v) succeeds.
C35_SuccessfulMapIsMapped ==
    (last.op = "map_page" /\ last.ret.ok) =>
        /\ translate(mapper, mem, last.virt) = Some(last.phys)
        /\ \A p2 \in {20480, 24576} :
               map_page(mapper, mem, allocator, last.virt, p2, PRESENT).ret
                   = Err("PageAlreadyMapped")
        /\ unmap_page(mapper, mem, last.virt).ret = Ok(last.phys)

\* the addresses translate is asked about: the pages of the calls, pages
\* beside them in the same page table, and pages under other entries of the
\* page directories and of the PDPT, each at its start and inside
ProbeAddrs ==
    {p + k : p \in VirtPages \cup {0, 12288, 2097152 + 4096, 1073741824 + 4096,
                                   1073741824 + 2097152 + 8192},
             k \in {0, 564}}

\* the page an address lies in
PageOf(w) == align_down(w, PAGE_SIZE)

\* C36: a map_page that returns an error (InvalidAddress, PageAlreadyMapped
\* or OutOfMemory) leaves translate(w) as it was for every address w, also
\* when it created intermediate tables before it failed.
C36_FailedMapKeepsTranslation ==
    (last.op = "map_page" /\ ~last.ret.ok) =>
        \A w \in ProbeAddrs :
            translate(mapper, mem, w) = translate(mapper, pre.mem, w)

\* map_page created a table and failed with OutOfMemory while a page was
\* mapped
C36_Witness ==
    /\ last.op = "map_page"
    /\ last.ret = Err("OutOfMemory")
    /\ allocator.allocated_frames > pre.allocator.allocated_frames
    /\ \E w \in ProbeAddrs : translate(mapper, mem, w) # None

\* C37: a map_page(v, ...) or unmap_page(v) that returns Ok changes the
\* translation of the page of v only: translate(w) is what it was for every
\* w in another page; translate changes no table entry and no allocator
\* state.
C37_MappingIsolation ==
    /\ (last.op \in {"map_page", "unmap_page"} /\ last.ret.ok) =>
           \A w \in ProbeAddrs :
               PageOf(w) # PageOf(last.virt) =>
                   translate(mapper, mem, w) = translate(mapper, pre.mem, w)
    /\ last.op = "translate" =>
           /\ mem = pre.mem
           /\ allocator = pre.allocator
           /\ last.ret = translate(mapper, mem, last.virt)

\* map_page mapped a page whose page table holds another mapped page
C37_Witness ==
    /\ last.op = "map_page"
    /\ last.ret.ok
    /\ translate(mapper, pre.mem, last.virt) = None
    /\ translate(mapper, mem, last.virt) # None
    /\ \E w \in VirtPages :
           /\ w # last.virt
           /\ TableAt(mapper, mem, w, 4) = TableAt(mapper, mem, last.virt, 4)
           /\ translate(mapper, mem, w) # None

\* C38: a map_page that returns Ok takes one frame for each of the tables
\* PDPT, PD and PT that was absent on the path of v (0 to 3) and none for the
\* leaf; unmap_page removes no intermediate table and leaves the allocator
\* as it is, so a map_page of the page just unmapped takes no frame, and no
\* mapper operation lowers allocated_frames; a map_page that fails with
\* OutOfMemory keeps the frames it took, in the tables it installed.
C38_FrameConsumption ==
    LET took == Taken(pre.allocator, allocator)
    IN  /\ (last.op = "map_page" /\ last.ret.ok) =>
               /\ Cardinality(took) = MissingTables(mapper, pre.mem, last.virt)
               /\ Cardinality(took) \in 0 .. 3
               /\ allocator.allocated_frames
                      = pre.allocator.allocated_frames + Cardinality(took)
               /\ last.phys \notin took
        /\ last.op = "unmap_page" =>
               /\ allocator = pre.allocator
               /\ ParentEntries(mapper, mem) = ParentEntries(mapper, pre.mem)
               /\ \A ref \in ParentEntries(mapper, mem) :
                      Child(mem, ref) = Child(pre.mem, ref)
               /\ last.ret.ok =>
                      LET again == map_page(mapper, mem, allocator, last.virt,
                                            last.ret.val, PRESENT)
                      IN  again.ret.ok /\ again.fa = allocator
        /\ last.op \in MapperOps =>
               /\ allocator.allocated_frames >= pre.allocator.allocated_frames
               /\ \A f \in PmFrames :
                      is_allocated(pre.allocator, f) => is_allocated(allocator, f)
        /\ (last.op = "map_page" /\ last.ret = Err("OutOfMemory")) =>
               /\ allocator.allocated_frames
                      = pre.allocator.allocated_frames + Cardinality(took)
               /\ Cardinality(took) = free_frames(pre.allocator)
               /\ took \subseteq TableFrames(mapper, mem)

\* unmap_page emptied a page table, which stays in its page directory
C38_Witness ==
    /\ last.op = "unmap_page"
    /\ last.ret.ok
    /\ mem[TableAt(mapper, mem, last.virt, 4)[1]] = EmptyTable
    /\ allocator.allocated_frames >= 3


\* C39: in every state of a BumpAllocator after init, heap_start <= next <=
\* heap_end and stats().used + stats().free = stats().heap_size; the blocks
\* [ptr, ptr + size) returned by successful allocs since init or the last reset
\* lie inside [heap_start, heap_end) and are pairwise disjoint
C39_CursorInvariant ==
    /\ allocator.heap_start <= allocator.next
    /\ allocator.next <= allocator.heap_end
    /\ bump_stats(allocator).used + bump_stats(allocator).free
           = bump_stats(allocator).heap_size
    /\ \A b \in outstanding :
           /\ allocator.heap_start <= b[1]
           /\ b[1] + b[2] <= allocator.heap_end
    /\ \A b1, b2 \in outstanding :
           b1 # b2 => \/ b1[1] + b1[2] <= b2[1]
                      \/ b2[1] + b2[2] <= b1[1]

\* the same for the regions whose end is far from the top of the address space
C39_LowHeapCursorInvariant ==
    heap.start + heap.size + 4096 < USIZE_WRAP => C39_CursorInvariant

C39_LowHeapWitness ==
    /\ heap.start + heap.size + 4096 < USIZE_WRAP
    /\ last.op = "alloc"
    /\ last.ret # NULL
    /\ Cardinality(outstanding) >= 3
    /\ \E b \in outstanding : b[2] > 0 /\ b[1] + b[2] = allocator.next

(***************************************************************************)
(* Heap accounting of the LinkedListAllocator, checked under SpecLL        *)
(***************************************************************************)
\* the sizes of the nodes of the free list L, added up
RECURSIVE NodeBytes(_, _)
NodeBytes(m, L) ==
    IF L = <<>> THEN 0 ELSE m[Head(L)].size + NodeBytes(m, Tail(L))

\* the rounded sizes of the blocks of ps, added up
RECURSIVE HeldBytes(_)
HeldBytes(ps) ==
    IF ps = {} THEN 0
    ELSE LET p == CHOOSE q \in ps : TRUE
         IN  BlockSize(p) + HeldBytes(ps \ {p})

\* every byte of the heap lies in a node of the free list L
Covered(m, L) ==
    \A x \in heap.start .. heap.start + heap.size - 1 :
        \E i \in 1 .. Len(L) : L[i] <= x /\ x < L[i] + m[L[i]].size

\* C40: with every dealloc passing the pointer and layout of a block still
\* handed out, the sizes of the free-list nodes plus the rounded sizes of the
\* blocks handed out add up to the heap size given to init; once no block is
\* handed out the free nodes cover the whole heap; and an alloc that returns
\* null leaves the free list as it was
C40_NoHeapLost ==
    LET L == FreeList(allocator, mem)
    IN  /\ NodeBytes(mem, L) + HeldBytes(DOMAIN outstanding) = heap.size
        /\ DOMAIN outstanding = {} => Covered(mem, L)
        /\ AllocReturned /\ last.ret = NULL =>
               /\ L = FreeList(pre.allocator, pre.mem)
               /\ \A i \in 1 .. Len(L) : mem[L[i]].size = pre.mem[L[i]].size

\* the same for the region that starts at a multiple of the largest alignment
\* requested and ends far below the top of the address space
C40_AlignedHeapNoHeapLost ==
    heap.start = 65536 => C40_NoHeapLost

C40_AlignedHeapWitness ==
    /\ heap.start = 65536
    /\ last.op = "dealloc"
    /\ DOMAIN outstanding = {}
    /\ Len(FreeList(allocator, mem)) >= 2
====
